---- MODULE Spec2Model ----
(***************************************************************************)
(* Model of the authenticated session manager of the Cody VS Code          *)
(* extension (vscode/src/services/AuthProvider.ts).                        *)
(*                                                                         *)
(* AuthProvider.auth is an async function: every `await` is a point where  *)
(* the call is suspended and other calls (or the caller's abort signal)    *)
(* may run.  Each call is a small process whose pc names the await it is   *)
(* suspended at; an action runs the code from one await to the next.       *)
(***************************************************************************)
EXTENDS Integers, Sequences, FiniteSets, TLC

\* ------------------------------------------------------------------ bounds
\* Number of auth() invocations in one behaviour.
MaxCalls == 2

Calls == 1..MaxCalls

\* ------------------------------------------------------------- value space
\* JavaScript null, for object-valued fields (user, site, a status).
Null == [isNull |-> TRUE]

\* JavaScript null, for string-valued values (token, formatURL's result).
NullStr == "<null>"

DOTCOM_URL == "https://sourcegraph.com/"

\* Endpoint strings a caller may pass to auth().
RawEndpoints == {"", "example.com", "https://sourcegraph.com/", "sgp_0123", "https://"}

\* Token arguments a caller may pass to auth(): null, empty, or a token.
TokenInputs == {NullStr, "", "t1", "t2"}

\* The (endpoint, token) arguments drawn for the auth() calls of the
\* concurrency specification: two tokens for one endpoint, a null and an
\* empty token, the empty endpoint that signout passes, and two endpoints
\* that formatURL rejects given together with a token.
AuthInputs ==
    { <<"example.com", "t1">>, <<"example.com", "t2">>,
      <<"example.com", NullStr>>, <<"https://sourcegraph.com/", "">>,
      <<"", NullStr>>, <<"", "t1">>, <<"sgp_0123", "t1">> }

\* isSourcegraphToken(uri): the string has the shape of an access token.
IsSourcegraphToken(uri) == uri = "sgp_0123"

\* uri.startsWith('http')
StartsWithHttp(uri) ==
    uri \in {"https://sourcegraph.com/", "https://example.com/", "https://"}

\* new URL(uri).href for the parsable URLs of the model.
Href(uri) ==
    CASE uri = "https://example.com" -> "https://example.com/"
      [] uri = "https://example.com/" -> "https://example.com/"
      [] uri = "https://sourcegraph.com/" -> "https://sourcegraph.com/"
      [] OTHER -> NullStr

\* formatURL: null for the empty string, for an access token and for
\* unparsable input, otherwise the href of the URL, with https:// prefixed
\* when the scheme is missing.
FormatURL(uri) ==
    IF uri = "" THEN NullStr
    ELSE IF IsSourcegraphToken(uri) THEN NullStr
    ELSE LET u == IF StartsWithHttp(uri) THEN uri ELSE "https://" \o uri
         IN  Href(u)

\* isDotCom(endpoint)
IsDotCom(endpoint) == endpoint = DOTCOM_URL

\* credentials.serverEndpoint: formatURL(endpoint) ?? ''
ServerEndpoint(endpoint) ==
    IF FormatURL(endpoint) = NullStr THEN "" ELSE FormatURL(endpoint)

\* Endpoints that can be persisted (normalized, non-empty).
StoredEndpoints == {ServerEndpoint(e) : e \in RawEndpoints} \ {""}

\* !token
TokenIsEmpty_NullOnly(token) == token = NullStr

TokenIsEmpty(token) == token = NullStr \/ token = ""

\* storeAuthInfo: if (credentials.accessToken)
StoresToken_Never(accessToken) == FALSE

StoresToken_Always(accessToken) == TRUE

StoresToken(accessToken) == ~TokenIsEmpty(accessToken)

\* ------------------------------------------------------ validator responses
\* Messages of the structured errors the GraphQL client may return.
ErrorMessages ==
    {"HTTP status code 401", "HTTP status code 403: Forbidden", "http status code 404",
     "TypeError: Failed to fetch", "HTTP status code 500", "internal error"}

ErrorOf(msg) == [isError |-> TRUE, message |-> msg]

Errors == {ErrorOf(m) : m \in ErrorMessages}

IsError(v) == v \in Errors

\* getCurrentUserInfo's success payload.
UserInfo == [username |-> "alice", primaryEmail |-> [email |-> "alice@example.com"]]

\* getCodyLLMConfiguration's success payload.
LLMConfig == [chatModel |-> "m"]

\* Site version strings isCodyEnabled may report: none, a legacy release, the
\* release that introduced the newer API, a later release, and a build
\* identifier that is not a semantic version.
SiteVersions == {"", "5.2.0", "5.4.0", "5.10.1", "279222_2024-07-02_5.4-abc"}

\* semver.valid(version): the parsed version, or the empty tuple for null.
ParseSemver(version) ==
    CASE version = "5.2.0" -> <<5, 2, 0>>
      [] version = "5.4.0" -> <<5, 4, 0>>
      [] version = "5.10.1" -> <<5, 10, 1>>
      [] OTHER -> <<>>

\* semver.gte(a, b) on parsed versions.
SemverGte(a, b) ==
    \/ a[1] > b[1]
    \/ a[1] = b[1] /\ a[2] > b[2]
    \/ a[1] = b[1] /\ a[2] = b[2] /\ a[3] >= b[3]

\* inferCodyApiVersion(version, isDotCom): dotcom is always on the newest
\* API; a version that does not parse is taken to be the newest; otherwise
\* the API is 1 from release 5.4.0 on and 0 before.
InferCodyApiVersion(version, isDotCom) ==
    IF isDotCom THEN 1
    ELSE IF ParseSemver(version) = <<>> THEN 1
    ELSE IF SemverGte(ParseSemver(version), <<5, 4, 0>>) THEN 1
    ELSE 0

\* codyApiVersion: inferCodyApiVersion(siteVersion, endpointIsDotCom)
CodyApiVersion_IgnoreDotCom(siteVersion, endpointIsDotCom) ==
    InferCodyApiVersion(siteVersion, FALSE)

CodyApiVersion_Legacy(siteVersion, endpointIsDotCom) == 0

CodyApiVersion(siteVersion, endpointIsDotCom) ==
    InferCodyApiVersion(siteVersion, endpointIsDotCom)

\* The resolved values of Promise.all([isCodyEnabled, getCodyLLMConfiguration,
\* getCurrentUserInfo]).
Responses ==
    { [enabled |-> en, version |-> v, llm |-> l, userInfo |-> u] :
        en \in BOOLEAN, v \in SiteVersions,
        l \in {LLMConfig} \cup Errors, u \in {Null, UserInfo} \cup Errors }

NoResponse == [none |-> TRUE]

\* The validator results drawn in the concurrency specification: a valid
\* user on a site with Cody enabled, the same with Cody disabled, and an
\* invalid token.
ValidatorResults ==
    { [enabled |-> TRUE, version |-> "5.4.0", llm |-> LLMConfig, userInfo |-> UserInfo],
      [enabled |-> FALSE, version |-> "5.4.0", llm |-> LLMConfig, userInfo |-> UserInfo],
      [enabled |-> TRUE, version |-> "5.4.0", llm |-> LLMConfig,
       userInfo |-> ErrorOf("HTTP status code 401")] }

\* message.toLowerCase()
ToLowerCase(msg) ==
    CASE msg = "HTTP status code 401" -> "http status code 401"
      [] msg = "HTTP status code 403: Forbidden" -> "http status code 403: forbidden"
      [] msg = "TypeError: Failed to fetch" -> "typeerror: failed to fetch"
      [] msg = "HTTP status code 500" -> "http status code 500"
      [] OTHER -> msg

\* message.includes(searchString)
Includes(message, searchString) ==
    \E k \in 1..(Len(message) - Len(searchString) + 1) :
        SubSeq(message, k, k + Len(searchString) - 1) = searchString

IsLikelyAccessTokenInvalidError(error) ==
    LET message == ToLowerCase(error.message)
    IN  \/ Includes(message, "http status code 401")
        \/ Includes(message, "http status code 403")
        \/ Includes(message, "http status code 404")

IsLikelyOfflineError_CaseSensitive(error) == Includes(error.message, "failed to fetch")

IsLikelyOfflineError(error) ==
    LET message == ToLowerCase(error.message)
    IN  Includes(message, "failed to fetch")

\* ------------------------------------------------------------ auth statuses
\* The placeholder installed by the constructor.
PlaceholderStatus_Unset(lastEndpoint) == Null

PlaceholderStatus(lastEndpoint) ==
    [endpoint |-> lastEndpoint,
     isDotCom |-> IsDotCom(lastEndpoint),
     isLoggedIn |-> FALSE,
     showInvalidAccessTokenError |-> FALSE,
     ephemeralConnectivityStatus |-> "unknown",
     user |-> Null,
     site |-> Null]

\* makeAuthStatus, the branch taken when there is no token.
NoTokenStatus(endpoint) ==
    [endpoint |-> endpoint,
     isDotCom |-> IsDotCom(endpoint),
     isLoggedIn |-> FALSE,
     showInvalidAccessTokenError |-> FALSE,
     ephemeralConnectivityStatus |-> "unknown",
     user |-> Null,
     site |-> Null]

\* isLoggedIn: siteHasCodyEnabled && userInfo !== null
IsLoggedIn_UserOnly(siteHasCodyEnabled, userInfo) == userInfo # Null

IsLoggedIn_EnabledOnly(siteHasCodyEnabled, userInfo) == siteHasCodyEnabled

IsLoggedIn(siteHasCodyEnabled, userInfo) == siteHasCodyEnabled /\ userInfo # Null

\* if (isError(userInfo))
ValidationFailed(r) == IsError(r.userInfo)

\* configOverwrites: isError(codyLLMConfiguration) ? undefined : codyLLMConfiguration
ConfigOverwrites_Keep(codyLLMConfiguration) == codyLLMConfiguration

ConfigOverwrites(codyLLMConfiguration) ==
    IF IsError(codyLLMConfiguration) THEN Null ELSE codyLLMConfiguration

\* makeAuthStatus, after the three validator calls have resolved to r.
ValidatedStatus(endpoint, r) ==
    IF ValidationFailed(r)
    THEN [endpoint |-> endpoint,
          isDotCom |-> IsDotCom(endpoint),
          isLoggedIn |-> FALSE,
          showInvalidAccessTokenError |-> IsLikelyAccessTokenInvalidError(r.userInfo),
          ephemeralConnectivityStatus |->
              IF IsLikelyOfflineError(r.userInfo) THEN "offline" ELSE "error",
          user |-> Null,
          site |-> Null]
    ELSE [endpoint |-> endpoint,
          isDotCom |-> IsDotCom(endpoint),
          isLoggedIn |-> IsLoggedIn(r.enabled, r.userInfo),
          user |-> IF r.userInfo # Null
                   THEN [username |-> r.userInfo.username,
                         authenticated |-> TRUE,
                         primaryEmail |-> IF r.userInfo.primaryEmail = Null
                                          THEN ""
                                          ELSE r.userInfo.primaryEmail.email]
                   ELSE Null,
          site |-> [siteVersion |-> r.version,
                    configOverwrites |-> ConfigOverwrites(r.llm),
                    siteHasCodyEnabled |-> r.enabled,
                    codyApiVersion |-> CodyApiVersion(r.version, IsDotCom(endpoint))],
          showInvalidAccessTokenError |-> FALSE,
          ephemeralConnectivityStatus |-> "online"]

\* makeAuthStatus: the status for a token and the validator results r.
MakeAuthStatus(endpoint, token, r) ==
    IF TokenIsEmpty(token) THEN NoTokenStatus(endpoint) ELSE ValidatedStatus(endpoint, r)

\* The status auth() returns from its catch block for a non-abort error.
FailureStatus(endpoint) ==
    [endpoint |-> endpoint,
     isDotCom |-> IsDotCom(endpoint),
     isLoggedIn |-> FALSE,
     showInvalidAccessTokenError |-> TRUE,
     ephemeralConnectivityStatus |-> "online",
     user |-> Null,
     site |-> Null]

\* ------------------------------------------------------------------- state
VARIABLES
    \* AuthProvider fields
    status,             \* this.status
    inflightAuth,       \* this.inflightAuth: 0 for null, else the owning call
    endpointHistory,    \* this.endpointHistory
    lastEndpoint,       \* the constructor's lastEndpoint constant
    firstAuth,          \* the constructor's firstAuth flag
    startupPc,          \* position of the config subscription callback
    \* collaborators
    lastUsedEndpoint,   \* localStorage: last used endpoint
    storedHistory,      \* localStorage: endpoint history
    hasAuthenticatedBefore, \* localStorage: HAS_AUTHENTICATED_BEFORE_KEY
    secrets,            \* secretStorage: endpoint -> token
    contextFlag,        \* the 'cody.activated' context flag
    fired,              \* statuses passed to didChangeEvent.fire, in order
    telemetry,          \* recorded telemetry events, in order
    \* one record of locals per auth() invocation
    nStarted,           \* number of auth() invocations so far
    pc,                 \* the await a call is suspended at
    args,               \* the call's arguments
    aborted,            \* abortController.signal.aborted
    authStatus,         \* the call's authStatus local
    ioFailed,           \* the operation being awaited will reject
    outcome,            \* "none", "status" (returned), "abort"/"error" (thrown)
    result,             \* the status returned to the caller
    \* observations of the run, written but never read by the program
    validatorCalled,    \* the call issued the three validator requests
    committed,          \* the call assigned this.status
    staleWrite,         \* the call wrote to a store after a newer call began
    superseded,         \* a newer call began before the call had finished
    raised,             \* where a non-abort failure was raised in the call
    flagWriteFailed,    \* an unawaited write of the has-authenticated flag failed
    \* signout(endpoint)
    signoutPc,          \* the await signout is suspended at
    signoutEndpoint,    \* its endpoint argument
    signoutAt,          \* number of auth() invocations when signout began
    signoutCall,        \* the auth() invocation signout awaits: 0 for none
    signoutFailed,      \* the operation signout awaits will reject
    \* reloadAuthStatus()
    reloadPc,           \* the await reloadAuthStatus is suspended at
    reloadCall,         \* the auth() invocation it awaits: 0 for none
    reloadFailed,       \* the setContext it awaits will reject
    \* redirectToEndpointLogin(uri) and tokenCallbackHandler(uri)
    redirectEndpoint,   \* the endpoint whose token page was opened, if any
    callbackCode,       \* the 'code' parameter of the callback URI
    callbackPc,         \* position of tokenCallbackHandler
    callbackCall,       \* the auth() invocation it awaits: 0 for none
    \* makeAuthStatus applied on its own
    mkInput,            \* the credentials and the validator results it is given
    mkStatus,           \* the status it returns
    \* newAuthStatus applied on its own
    options,            \* its argument
    newStatus           \* the status it returns

\* LocalEmbeddingsController and the cody-engine service it talks to
VARIABLES
    service,            \* this.service: "none", or how far its start-up has got
    serviceStarted,     \* this.serviceStarted
    accessToken,        \* this.accessToken (NullStr for undefined)
    endpointIsDotcom,   \* this.endpointIsDotcom
    lastRepo,           \* this.lastRepo (Null for undefined)
    lastHealth,         \* this.lastHealth (Null for undefined)
    lastError,          \* this.lastError (NullStr for undefined)
    dirBeingIndexed,    \* this.dirBeingIndexed (NullStr for undefined)
    hasIssue,           \* the 'cody.embeddings.hasIssue' context flag
    engineToken,        \* the token last sent with 'embeddings/set-token'
    engineIndexing,     \* the directory the engine is indexing (NullStr: none)
    loadRequests,       \* eagerlyLoad calls awaiting 'embeddings/load'
    healthRequests,     \* directories awaiting 'embeddings/index-health'
    indexRequests,      \* 'embeddings/index' requests awaiting their response
    setTokenRequests,   \* setAccessToken calls awaiting 'embeddings/set-token'
    embOps,             \* number of calls made to the controller so far
    indexSent,          \* number of 'embeddings/index' requests sent
    querySent,          \* number of 'embeddings/query' requests sent
    lastCall            \* the last call made to the controller and its result

\* GhostHintDecorator and the editor events it listens to
VARIABLES
    isActive,           \* this.isActive
    disposables,        \* number of init() registrations held in this.disposables
    enrollmentListener, \* this.enrollmentListener: a listener id, 0 for null
    liveEnrollment,     \* the enrollment listeners registered and not disposed
    pendingUpdates,     \* updateEnablement calls awaiting getGhostHintEnablement
    updateCalls,        \* number of updateEnablement calls made so far
    ghostAuth,          \* isLoggedIn of the most recent auth status
    hintsEnabled,       \* what getGhostHintEnablement evaluates to now
    selectionLogs,      \* enrollment events the last selection change logged
    loggedSinceUpdate   \* an enrollment event was logged since the last update

\* singleton containers
VARIABLES
    containers,         \* the objects singletonNotYetSet() returned
    lastSet             \* the last setSingleton call and whether it threw

\* parseProviderAndModel
VARIABLES
    parseArgs,          \* its argument
    parseResult         \* what it returned

providerVars == <<status, inflightAuth, endpointHistory, lastEndpoint, firstAuth, startupPc>>

storeVars == <<lastUsedEndpoint, storedHistory, hasAuthenticatedBefore, secrets>>

hostVars == <<contextFlag, fired, telemetry>>

callVars == <<nStarted, pc, args, aborted, authStatus, ioFailed, outcome, result>>

obsVars == <<validatorCalled, committed, staleWrite, superseded, raised, flagWriteFailed>>

signoutVars == <<signoutPc, signoutEndpoint, signoutAt, signoutCall, signoutFailed>>

reloadVars == <<reloadPc, reloadCall, reloadFailed>>

callbackVars == <<redirectEndpoint, callbackCode, callbackPc, callbackCall>>

makeVars == <<mkInput, mkStatus>>

newVars == <<options, newStatus>>

embVars == <<service, serviceStarted, accessToken, endpointIsDotcom, lastRepo, lastHealth,
             lastError, dirBeingIndexed, hasIssue, engineToken, engineIndexing,
             loadRequests, healthRequests, indexRequests, setTokenRequests, embOps,
             indexSent, querySent, lastCall>>

\* The variables of the units beside the session manager.
ghostVars == <<isActive, disposables, enrollmentListener, liveEnrollment, pendingUpdates,
               updateCalls, ghostAuth, hintsEnabled, selectionLogs, loggedSinceUpdate>>

singletonVars == <<containers, lastSet>>

parseVars == <<parseArgs, parseResult>>

unitVars == <<embVars, ghostVars, singletonVars, parseVars>>

\* The variables of the operations that run beside signout and auth().
otherVars == <<reloadVars, callbackVars, newVars, unitVars>>

vars == <<providerVars, storeVars, hostVars, callVars, obsVars, signoutVars,
          reloadVars, callbackVars, makeVars, newVars, unitVars>>

\* The variables of the session manager and of the functions beside it.
authVars == <<providerVars, storeVars, hostVars, callVars, obsVars, signoutVars,
              reloadVars, callbackVars, makeVars, newVars>>

\* What a step of one unit leaves alone.
besideEmbeddings == <<authVars, ghostVars, singletonVars, parseVars>>

besideGhost == <<authVars, embVars, singletonVars, parseVars>>

besideSingletons == <<authVars, embVars, ghostVars, parseVars>>

besideParse == <<authVars, embVars, ghostVars, singletonVars>>

NoArgs == [endpoint |-> "", token |-> NullStr, isExtensionStartup |-> FALSE]

\* Persisted state found at construction: a fresh install, or a returning
\* user whose last endpoint and token are stored.
PersistedAtStart ==
    { [lastUsedEndpoint |-> NullStr, storedHistory |-> {},
       secrets |-> [e \in StoredEndpoints |-> NullStr],
       hasAuthenticatedBefore |-> FALSE],
      [lastUsedEndpoint |-> "https://example.com/",
       storedHistory |-> {"https://example.com/"},
       secrets |-> [e \in StoredEndpoints |->
                       IF e = "https://example.com/" THEN "t1" ELSE NullStr],
       hasAuthenticatedBefore |-> TRUE] }

\* The constructor.
Construct ==
    \E p \in PersistedAtStart :
        /\ lastUsedEndpoint = p.lastUsedEndpoint
        /\ storedHistory = p.storedHistory
        /\ hasAuthenticatedBefore = p.hasAuthenticatedBefore
        /\ secrets = p.secrets
        /\ endpointHistory = p.storedHistory
        /\ lastEndpoint = IF p.lastUsedEndpoint = NullStr THEN DOTCOM_URL
                          ELSE p.lastUsedEndpoint
        /\ status = PlaceholderStatus(IF p.lastUsedEndpoint = NullStr THEN DOTCOM_URL
                                      ELSE p.lastUsedEndpoint)
        /\ firstAuth = TRUE
        /\ startupPc = "idle"
        /\ inflightAuth = 0
        /\ contextFlag = FALSE
        /\ fired = <<>>
        /\ telemetry = <<>>
        /\ nStarted = 0
        /\ pc = [i \in Calls |-> "idle"]
        /\ args = [i \in Calls |-> NoArgs]
        /\ aborted = [i \in Calls |-> FALSE]
        /\ authStatus = [i \in Calls |-> Null]
        /\ ioFailed = [i \in Calls |-> FALSE]
        /\ outcome = [i \in Calls |-> "none"]
        /\ result = [i \in Calls |-> Null]
        /\ validatorCalled = [i \in Calls |-> FALSE]
        /\ committed = [i \in Calls |-> FALSE]
        /\ staleWrite = [i \in Calls |-> FALSE]
        /\ superseded = [i \in Calls |-> FALSE]
        /\ raised = [i \in Calls |-> "none"]
        /\ flagWriteFailed = FALSE
        /\ signoutPc = "idle"
        /\ signoutEndpoint = ""
        /\ signoutAt = 0
        /\ signoutCall = 0
        /\ signoutFailed = FALSE
        /\ reloadPc = "idle"
        /\ reloadCall = 0
        /\ reloadFailed = FALSE
        /\ redirectEndpoint = NullStr
        /\ callbackCode = NullStr
        /\ callbackPc = "idle"
        /\ callbackCall = 0

NoInput == [endpoint |-> "", token |-> NullStr, r |-> NoResponse]

\* newAuthStatus has not been applied.
NoOptions == [isNull |-> TRUE]

\* The controller has not been called.
NoCall == [op |-> "none", dir |-> "", sent |-> FALSE, results |-> FALSE]

\* token || undefined
TokenOrUndefined(token) == IF TokenIsEmpty(token) THEN NullStr ELSE token

\* The constructor of LocalEmbeddingsController.
ConstructEmbeddings(config) ==
    /\ service = "none"
    /\ serviceStarted = FALSE
    /\ accessToken = TokenOrUndefined(config.accessToken)
    /\ endpointIsDotcom = IsDotCom(config.serverEndpoint)
    /\ lastRepo = Null
    /\ lastHealth = Null
    /\ lastError = NullStr
    /\ dirBeingIndexed = NullStr
    /\ hasIssue = FALSE
    /\ engineToken = NullStr
    /\ engineIndexing = NullStr
    /\ loadRequests = {}
    /\ healthRequests = {}
    /\ indexRequests = {}
    /\ setTokenRequests = 0
    /\ embOps = 0
    /\ indexSent = 0
    /\ querySent = 0
    /\ lastCall = NoCall

\* The constructor of GhostHintDecorator: it calls updateEnablement with the
\* auth status of the moment, which awaits getGhostHintEnablement.
ConstructGhostHint(loggedIn, enabled) ==
    /\ isActive = FALSE
    /\ disposables = 0
    /\ enrollmentListener = 0
    /\ liveEnrollment = {}
    /\ pendingUpdates = {[id |-> 1, isLoggedIn |-> loggedIn, featureEnabled |-> enabled]}
    /\ updateCalls = 1
    /\ ghostAuth = loggedIn
    /\ hintsEnabled = enabled
    /\ selectionLogs = 0
    /\ loggedSinceUpdate = FALSE

\* A property an object does not have.
Absent == "<absent>"

\* The property names of the objects: the marker and two others.
Keys == {"__singletonNotYetSet", "x", "y"}

\* singletonNotYetSet(): { __singletonNotYetSet: true }
SingletonNotYetSet ==
    [proto |-> "Object",
     props |-> [k \in Keys |-> IF k = "__singletonNotYetSet" THEN "true" ELSE Absent]]

\* No setSingleton call has been made.
NoSet == [container |-> 0, instance |-> SingletonNotYetSet, threw |-> FALSE]

\* Two containers, exported and not yet set.
SingletonsIdle ==
    /\ containers = [c \in {1, 2} |-> SingletonNotYetSet]
    /\ lastSet = NoSet

\* parseProviderAndModel has not been called.
NoParse == [provider |-> "", hasModelId |-> FALSE, modelId |-> <<>>]

ParseIdle ==
    /\ parseArgs = NoParse
    /\ parseResult = Null

\* The units beside the session manager, constructed and not yet used.
UnitsIdle ==
    /\ ConstructEmbeddings([serverEndpoint |-> DOTCOM_URL, accessToken |-> NullStr])
    /\ ConstructGhostHint(FALSE, FALSE)
    /\ SingletonsIdle
    /\ ParseIdle

Init ==
    /\ Construct
    /\ mkInput = NoInput
    /\ mkStatus = Null
    /\ options = NoOptions
    /\ newStatus = Null
    /\ UnitsIdle

\* ------------------------------------------------------- auth(): fragments
\* if (this.inflightAuth) { this.inflightAuth.abort() }
AbortInflight_Skip(ab, inflight) == ab

AbortInflight(ab, inflight) ==
    IF inflight # 0 THEN [ab EXCEPT ![inflight] = TRUE] ELSE ab

\* The synchronous prefix of auth(): supersede the in-flight call, take the
\* in-flight slot, build the credentials and enter makeAuthStatus, which
\* issues the three validator requests unless the token is empty.
BeginAuth(i, endpoint, token, isExtensionStartup) ==
    /\ i = nStarted + 1
    /\ i \in Calls
    /\ nStarted' = i
    /\ aborted' = AbortInflight(aborted, inflightAuth)
    /\ inflightAuth' = i
    /\ superseded' = [j \in Calls |-> superseded[j] \/ j = inflightAuth]
    /\ args' = [args EXCEPT ![i] = [endpoint |-> endpoint, token |-> token,
                                    isExtensionStartup |-> isExtensionStartup]]
    /\ validatorCalled' = [validatorCalled EXCEPT ![i] = ~TokenIsEmpty(token)]
    /\ pc' = [pc EXCEPT ![i] = "makeAuthStatus"]
    /\ UNCHANGED <<status, endpointHistory, lastEndpoint,
                   makeVars, flagWriteFailed, storeVars, hostVars,
                   authStatus, ioFailed, outcome, result,
                   committed, staleWrite, raised>>

\* The call suspends at the await named by label; failed tells whether the
\* awaited operation will reject.
Suspend(i, label, failed) ==
    /\ pc' = [pc EXCEPT ![i] = label]
    /\ ioFailed' = [ioFailed EXCEPT ![i] = failed]
    /\ UNCHANGED <<inflightAuth, outcome, result>>

\* catch (error) { if (isAbortError(error)) throw error; return {...} }
CatchOutcome_Rethrow(isAbort) == IF isAbort THEN "abort" ELSE "error"

CatchOutcome(isAbort) == IF isAbort THEN "abort" ELSE "status"

\* finally { if (this.inflightAuth === abortController) this.inflightAuth = null }
ReleaseInflight_Always(inflight, i) == 0

ReleaseInflight_Never(inflight, i) == inflight

ReleaseInflight(inflight, i) == IF inflight = i THEN 0 ELSE inflight

\* The call leaves auth(): kind is "return" for the normal return of
\* authStatus, "abort" for a thrown abort error and "failure" for any other
\* thrown error; the finally block releases the in-flight slot.
Leave(i, kind) ==
    LET out == IF kind = "return" THEN "status" ELSE CatchOutcome(kind = "abort")
    IN  /\ pc' = [pc EXCEPT ![i] = "done"]
        /\ ioFailed' = [ioFailed EXCEPT ![i] = FALSE]
        /\ outcome' = [outcome EXCEPT ![i] = out]
        /\ result' = [result EXCEPT ![i] =
                        IF kind = "return" THEN authStatus[i]
                        ELSE IF out = "status" THEN FailureStatus(args[i].endpoint)
                        ELSE Null]
        /\ inflightAuth' = ReleaseInflight(inflightAuth, i)
        /\ authStatus' = [authStatus EXCEPT ![i] = Null]

\* localStorage.saveEndpoint(credentials.serverEndpoint) is invoked; the
\* write takes effect unless the operation fails.
CallSaveEndpoint(i, ok) ==
    LET e == ServerEndpoint(args[i].endpoint)
    IN  /\ lastUsedEndpoint' = IF ok THEN e ELSE lastUsedEndpoint
        /\ storedHistory' = IF ok THEN storedHistory \cup {e} ELSE storedHistory
        /\ staleWrite' = [staleWrite EXCEPT ![i] = @ \/ (ok /\ superseded[i])]
        /\ Suspend(i, "saveEndpoint", ~ok)
        /\ UNCHANGED <<hasAuthenticatedBefore, secrets>>

\* secretStorage.storeToken(credentials.serverEndpoint, credentials.accessToken)
CallStoreToken(i, ok) ==
    LET e == ServerEndpoint(args[i].endpoint)
    IN  /\ secrets' = IF ok THEN [secrets EXCEPT ![e] = args[i].token] ELSE secrets
        /\ staleWrite' = [staleWrite EXCEPT ![i] = @ \/ (ok /\ superseded[i])]
        /\ Suspend(i, "storeToken", ~ok)
        /\ UNCHANGED <<lastUsedEndpoint, storedHistory, hasAuthenticatedBefore>>

\* vscode.commands.executeCommand('setContext', 'cody.activated', isLoggedIn)
CallSetContext(i, isLoggedIn, ok) ==
    /\ contextFlag' = IF ok THEN isLoggedIn ELSE contextFlag
    /\ Suspend(i, "setContext", ~ok)

\* The throwIfAborted() that follows storeAuthInfo, then the setContext call.
AfterStoreAuthInfo(i, ok) ==
    IF aborted[i]
    THEN Leave(i, "abort") /\ UNCHANGED contextFlag
    ELSE CallSetContext(i, authStatus[i].isLoggedIn, ok) /\ UNCHANGED authStatus

\* The 'cody.auth' telemetry value setAuthStatus records with the event.
EventValue(st) ==
    IF st.ephemeralConnectivityStatus = "error" \/ st.showInvalidAccessTokenError
    THEN "failed"
    ELSE IF st.isLoggedIn THEN "connected" ELSE "disconnected"

\* setAuthStatus' finally block: if (!signal.aborted)
ShouldFire_Always(signalAborted) == TRUE

ShouldFire(signalAborted) == ~signalAborted

\* handleFirstEverAuthentication: if (localStorage.get(KEY)) return
HandlesFirstEver_Always(hasAuthenticated) == TRUE

HandlesFirstEver(hasAuthenticated) == ~hasAuthenticated

\* distinctUntilChanged(): drops a value that equals the one emitted before it.
RECURSIVE DistinctUntilChanged(_)
DistinctUntilChanged(values) ==
    IF Len(values) <= 1 THEN values
    ELSE LET front == DistinctUntilChanged(SubSeq(values, 1, Len(values) - 1))
             last == values[Len(values)]
         IN  IF last = front[Len(front)] THEN front ELSE Append(front, last)

\* AuthProvider.changes as seen by a subscriber present since construction:
\* the status at subscription, then every status fired, without repetitions.
Changes == DistinctUntilChanged(<<PlaceholderStatus(lastEndpoint)>> \o fired)

\* ------------------------------------------------------------------ actions
\* The config subscription callback runs for a configuration emission: the
\* first one clears firstAuth and awaits secretStorage.get(lastEndpoint);
\* every later one returns at once.
ConfigEmit ==
    /\ IF firstAuth
       THEN firstAuth' = FALSE /\ startupPc' = "getToken"
       ELSE UNCHANGED <<firstAuth, startupPc>>
    /\ UNCHANGED <<status, inflightAuth, endpointHistory, lastEndpoint,
                   makeVars, otherVars, signoutVars,
                   storeVars, hostVars, callVars, obsVars>>

\* if (this.status?.isLoggedIn) return
StartupSkips_Never(isLoggedIn) == FALSE

StartupSkips(isLoggedIn) == isLoggedIn

\* this.auth({...}).catch(error => logError(...)): whatever way the startup
\* call ends, the callback completes.
StartupCallbackEnd(out) == "done"

\* The callback resumes from secretStorage.get: if the read was rejected the
\* callback rejects; otherwise, unless the status is already logged in, it
\* starts the startup authentication with the stored token and awaits it.
StartupAuth(ok) ==
    /\ startupPc = "getToken"
    /\ UNCHANGED <<firstAuth, signoutVars, otherVars>>
    /\ IF ~ok \/ StartupSkips(status.isLoggedIn)
       THEN /\ startupPc' = IF ok THEN "done" ELSE "failed"
            /\ UNCHANGED <<status, inflightAuth, endpointHistory, lastEndpoint,
                           makeVars, storeVars, hostVars, callVars, obsVars>>
       ELSE /\ startupPc' = "auth"
            /\ BeginAuth(nStarted + 1, lastEndpoint,
                         IF secrets[lastEndpoint] = "" THEN NullStr
                         ELSE secrets[lastEndpoint],
                         TRUE)

\* The startup call has ended; its rejection, if any, is logged.
StartupAuthResume ==
    /\ startupPc = "auth"
    /\ \E i \in Calls :
          /\ args[i].isExtensionStartup
          /\ pc[i] = "done"
          /\ startupPc' = StartupCallbackEnd(outcome[i])
    /\ UNCHANGED <<status, inflightAuth, endpointHistory, lastEndpoint, firstAuth,
                   makeVars, otherVars, signoutVars,
                   storeVars, hostVars, callVars, obsVars>>

\* A caller invokes auth({endpoint, token}).
Auth(i, endpoint, token) ==
    /\ BeginAuth(i, endpoint, token, FALSE)
    /\ UNCHANGED <<firstAuth, startupPc, signoutVars, otherVars>>

\* The caller's signal aborts: the call's dependent controller aborts too.
ExternalAbort(i) ==
    /\ pc[i] \notin {"idle", "done"}
    /\ ~aborted[i]
    /\ aborted' = [aborted EXCEPT ![i] = TRUE]
    /\ UNCHANGED <<providerVars, makeVars, otherVars, signoutVars, storeVars, hostVars, obsVars,
                   nStarted, pc, args, authStatus, ioFailed, outcome, result>>

\* makeAuthStatus settles: without a token it returns the no-token status;
\* with a token the three validator calls resolve to r, or one of them
\* rejects with a non-abort error.  auth() then checks its signal and enters
\* storeAuthInfo, which returns at once for an empty serverEndpoint.
MakeAuthStatusResume(i) ==
    /\ pc[i] = "makeAuthStatus"
    /\ \E r \in ValidatorResults \cup {NoResponse}, ok \in BOOLEAN :
        LET noToken == TokenIsEmpty(args[i].token)
            e == ServerEndpoint(args[i].endpoint)
            rejected == ~noToken /\ r = NoResponse
            st == MakeAuthStatus(e, args[i].token, r)
        IN  /\ noToken => r = NoResponse
            /\ UNCHANGED <<status, endpointHistory, lastEndpoint,
                           makeVars, otherVars, signoutVars, flagWriteFailed, firstAuth,
                           startupPc, nStarted, args, aborted, validatorCalled,
                           committed>>
            /\ IF rejected
               THEN /\ Leave(i, "failure")
                    /\ raised' = [raised EXCEPT ![i] = "caught"]
                    /\ UNCHANGED <<storeVars, hostVars, staleWrite, superseded>>
               ELSE IF aborted[i]
               THEN /\ Leave(i, "abort")
                    /\ UNCHANGED <<storeVars, hostVars, staleWrite, superseded, raised>>
               ELSE /\ authStatus' = [authStatus EXCEPT ![i] = st]
                    /\ UNCHANGED <<fired, telemetry, raised>>
                    /\ IF e = ""
                       THEN /\ CallSetContext(i, st.isLoggedIn, ok)
                            /\ UNCHANGED <<storeVars, staleWrite, superseded>>
                       ELSE /\ CallSaveEndpoint(i, ok)
                            /\ UNCHANGED <<contextFlag, superseded>>

\* A rejected store, command or flag write reaches auth()'s catch block.
Fail(i) ==
    /\ Leave(i, "failure")
    /\ raised' = [raised EXCEPT ![i] = "caught"]

\* storeAuthInfo resumes after saveEndpoint: it stores the token if there is
\* one, else reloads the endpoint history and returns to auth().
SaveEndpointResume(i) ==
    /\ pc[i] = "saveEndpoint"
    /\ UNCHANGED <<status, lastEndpoint,
                   makeVars, otherVars, signoutVars, flagWriteFailed, firstAuth, startupPc,
                   fired, telemetry,
                   nStarted, args, aborted, validatorCalled, committed>>
    /\ \E ok \in BOOLEAN :
        IF ioFailed[i]
        THEN /\ Fail(i)
             /\ UNCHANGED <<endpointHistory, storeVars, contextFlag, staleWrite, superseded>>
        ELSE IF StoresToken(args[i].token)
        THEN /\ CallStoreToken(i, ok)
             /\ UNCHANGED <<endpointHistory, contextFlag, authStatus, raised, superseded>>
        ELSE /\ endpointHistory' = storedHistory
             /\ AfterStoreAuthInfo(i, ok)
             /\ UNCHANGED <<storeVars, staleWrite, superseded, raised>>

\* storeAuthInfo resumes after storeToken, reloads the endpoint history and
\* returns to auth().
StoreTokenResume(i) ==
    /\ pc[i] = "storeToken"
    /\ UNCHANGED <<status, lastEndpoint,
                   makeVars, otherVars, signoutVars, flagWriteFailed, firstAuth, startupPc,
                   fired, telemetry,
                   nStarted, args, aborted, validatorCalled, committed,
                   storeVars, staleWrite, superseded>>
    /\ \E ok \in BOOLEAN :
        IF ioFailed[i]
        THEN /\ Fail(i)
             /\ UNCHANGED <<endpointHistory, contextFlag>>
        ELSE /\ endpointHistory' = storedHistory
             /\ AfterStoreAuthInfo(i, ok)
             /\ UNCHANGED raised

\* auth() resumes after setContext, checks its signal and enters
\* setAuthStatus, which assigns this.status and awaits the client-config
\* update.
SetContextResume(i) ==
    /\ pc[i] = "setContext"
    /\ UNCHANGED <<endpointHistory, lastEndpoint,
                   makeVars, otherVars, signoutVars, flagWriteFailed, firstAuth, startupPc,
                   storeVars, hostVars, nStarted, args, aborted,
                   validatorCalled, staleWrite, superseded>>
    /\ \E failed \in BOOLEAN :
        IF ioFailed[i]
        THEN Fail(i) /\ UNCHANGED <<status, committed>>
        ELSE IF aborted[i]
        THEN Leave(i, "abort") /\ UNCHANGED <<status, committed, raised>>
        ELSE /\ status' = authStatus[i]
             /\ committed' = [committed EXCEPT ![i] = TRUE]
             /\ Suspend(i, "clientConfig", failed)
             /\ UNCHANGED <<authStatus, raised>>

\* The rest of setAuthStatus and of auth() once the client-config update and
\* the model sync are over: the finally block fires the change event and
\* records telemetry unless the signal is aborted; auth() checks its signal,
\* records the startup login or handles a first-ever login, and returns.
AfterSync(i, failed, ok) ==
    LET st == authStatus[i]
        fire == ShouldFire(aborted[i])
        t1 == IF fire THEN Append(telemetry, <<"cody.auth", EventValue(st)>>)
              ELSE telemetry
        firstEver == ~aborted[i] /\ st.isLoggedIn /\ ~args[i].isExtensionStartup
                     /\ HandlesFirstEver(hasAuthenticatedBefore)
    IN  /\ fired' = IF fire THEN Append(fired, status) ELSE fired
        /\ telemetry' = IF firstEver THEN Append(t1, <<"cody.auth.login", "firstEver">>)
                        ELSE t1
        /\ raised' = [raised EXCEPT ![i] = IF failed THEN "commit" ELSE @]
        /\ flagWriteFailed' = (flagWriteFailed \/ (firstEver /\ ~ok))
        /\ UNCHANGED <<status, endpointHistory, lastEndpoint,
                       makeVars, otherVars, signoutVars, firstAuth,
                       startupPc, lastUsedEndpoint, storedHistory, secrets,
                       contextFlag, nStarted, args, aborted,
                       validatorCalled, committed, staleWrite, superseded>>
        /\ IF aborted[i]
           THEN Leave(i, "abort") /\ UNCHANGED hasAuthenticatedBefore
           ELSE IF args[i].isExtensionStartup /\ st.isLoggedIn
           THEN /\ hasAuthenticatedBefore' = (ok \/ hasAuthenticatedBefore)
                /\ Suspend(i, "setHasAuthenticatedBefore", ~ok)
                /\ UNCHANGED authStatus
           ELSE /\ hasAuthenticatedBefore' =
                    IF firstEver THEN ok ELSE hasAuthenticatedBefore
                /\ Leave(i, "return")

\* setAuthStatus resumes after ClientConfigSingleton.setAuthStatus: on an
\* error it skips the model sync, else it awaits syncModels.
ClientConfigResume(i) ==
    /\ pc[i] = "clientConfig"
    /\ \E failed, ok \in BOOLEAN :
        IF ioFailed[i]
        THEN AfterSync(i, TRUE, ok)
        ELSE /\ Suspend(i, "syncModels", failed)
             /\ UNCHANGED <<status, endpointHistory, lastEndpoint,
                            makeVars, otherVars, signoutVars, firstAuth,
                            startupPc, storeVars, hostVars, obsVars,
                            nStarted, args, aborted, authStatus>>

\* setAuthStatus resumes after syncModels.
SyncModelsResume(i) ==
    /\ pc[i] = "syncModels"
    /\ \E ok \in BOOLEAN : AfterSync(i, ioFailed[i], ok)

\* auth() resumes after setHasAuthenticatedBefore (startup login), checks
\* its signal and returns.
SetHasAuthenticatedBeforeResume(i) ==
    /\ pc[i] = "setHasAuthenticatedBefore"
    /\ UNCHANGED <<status, endpointHistory, lastEndpoint,
                   makeVars, otherVars, signoutVars, flagWriteFailed, firstAuth, startupPc,
                   storeVars, hostVars, nStarted, args, aborted,
                   validatorCalled, committed, staleWrite, superseded>>
    /\ IF ioFailed[i]
       THEN Fail(i)
       ELSE IF aborted[i]
       THEN Leave(i, "abort") /\ UNCHANGED raised
       ELSE Leave(i, "return") /\ UNCHANGED raised

\* ------------------------------------------------------------------ signout
\* signoutMenu calls signout(endpoint) with the endpoint of the current
\* status, if there is one; signout invokes secretStorage.deleteToken.
Signout ==
    /\ signoutPc = "idle"
    /\ status.endpoint # ""
    /\ \E ok \in BOOLEAN :
        /\ secrets' = IF ok THEN [secrets EXCEPT ![status.endpoint] = NullStr] ELSE secrets
        /\ signoutFailed' = ~ok
    /\ signoutPc' = "deleteToken"
    /\ signoutEndpoint' = status.endpoint
    /\ signoutAt' = nStarted
    /\ UNCHANGED <<providerVars, lastUsedEndpoint, storedHistory, hasAuthenticatedBefore,
                   hostVars, callVars, obsVars, makeVars, otherVars, signoutCall>>

\* signout resumes after deleteToken and invokes localStorage.deleteEndpoint,
\* which clears the last used endpoint; a rejected deleteToken ends signout.
SignoutDeleteTokenResume ==
    /\ signoutPc = "deleteToken"
    /\ IF signoutFailed
       THEN /\ signoutPc' = "failed"
            /\ signoutFailed' = FALSE
            /\ UNCHANGED lastUsedEndpoint
       ELSE \E ok \in BOOLEAN :
            /\ lastUsedEndpoint' = IF ok THEN NullStr ELSE lastUsedEndpoint
            /\ signoutPc' = "deleteEndpoint"
            /\ signoutFailed' = ~ok
    /\ UNCHANGED <<providerVars, storedHistory, hasAuthenticatedBefore, secrets,
                   hostVars, callVars, obsVars, makeVars, otherVars,
                   signoutEndpoint, signoutAt, signoutCall>>

\* signout resumes after deleteEndpoint and calls auth({endpoint: '', token: null}).
SignoutDeleteEndpointResume ==
    /\ signoutPc = "deleteEndpoint"
    /\ UNCHANGED <<firstAuth, startupPc, signoutEndpoint, signoutAt, otherVars>>
    /\ IF signoutFailed
       THEN /\ signoutPc' = "failed"
            /\ signoutFailed' = FALSE
            /\ UNCHANGED <<status, inflightAuth, endpointHistory, lastEndpoint,
                           storeVars, hostVars, callVars, obsVars, makeVars, signoutCall>>
       ELSE /\ BeginAuth(nStarted + 1, "", NullStr, FALSE)
            /\ signoutCall' = nStarted + 1
            /\ signoutPc' = "auth"
            /\ UNCHANGED signoutFailed

\* The auth() call signout awaits has finished: an abort error ends signout,
\* otherwise signout sets the 'cody.activated' context flag to false.
SignoutAuthResume ==
    /\ signoutPc = "auth"
    /\ pc[signoutCall] = "done"
    /\ IF outcome[signoutCall] = "abort"
       THEN /\ signoutPc' = "failed"
            /\ UNCHANGED <<contextFlag, signoutFailed>>
       ELSE \E ok \in BOOLEAN :
            /\ contextFlag' = IF ok THEN FALSE ELSE contextFlag
            /\ signoutPc' = "setContext"
            /\ signoutFailed' = ~ok
    /\ UNCHANGED <<providerVars, storeVars, fired, telemetry, callVars, obsVars, makeVars,
                   otherVars,
                   signoutEndpoint, signoutAt, signoutCall>>

\* signout resumes after setContext and returns.
SignoutSetContextResume ==
    /\ signoutPc = "setContext"
    /\ signoutPc' = IF signoutFailed THEN "failed" ELSE "done"
    /\ signoutFailed' = FALSE
    /\ UNCHANGED <<providerVars, storeVars, hostVars, callVars, obsVars, makeVars, otherVars,
                   signoutEndpoint, signoutAt, signoutCall>>

Next ==
    \/ ConfigEmit
    \/ \E ok \in BOOLEAN : StartupAuth(ok)
    \/ StartupAuthResume
    \/ \E i \in Calls, a \in AuthInputs : Auth(i, a[1], a[2])
    \/ \E i \in Calls : ExternalAbort(i)
    \/ \E i \in Calls : MakeAuthStatusResume(i)
    \/ \E i \in Calls : SaveEndpointResume(i)
    \/ \E i \in Calls : StoreTokenResume(i)
    \/ \E i \in Calls : SetContextResume(i)
    \/ \E i \in Calls : ClientConfigResume(i)
    \/ \E i \in Calls : SyncModelsResume(i)
    \/ \E i \in Calls : SetHasAuthenticatedBeforeResume(i)

Spec == Init /\ [][Next]_vars

\* The session manager with the sign-out menu: signout, the startup
\* authentication and a sign-in with a token for the stored endpoint.
NextSignOut ==
    \/ ConfigEmit
    \/ \E ok \in BOOLEAN : StartupAuth(ok)
    \/ StartupAuthResume
    \/ \E i \in Calls : Auth(i, "example.com", "t2")
    \/ \E i \in Calls : ExternalAbort(i)
    \/ \E i \in Calls : MakeAuthStatusResume(i)
    \/ \E i \in Calls : SaveEndpointResume(i)
    \/ \E i \in Calls : StoreTokenResume(i)
    \/ \E i \in Calls : SetContextResume(i)
    \/ \E i \in Calls : ClientConfigResume(i)
    \/ \E i \in Calls : SyncModelsResume(i)
    \/ \E i \in Calls : SetHasAuthenticatedBeforeResume(i)
    \/ Signout
    \/ SignoutDeleteTokenResume
    \/ SignoutDeleteEndpointResume
    \/ SignoutAuthResume
    \/ SignoutSetContextResume

SpecSignOut == Init /\ [][NextSignOut]_vars

\* --------------------------------------------- auth() under fair scheduling
\* The sign-ins of the fair specification: one with a token, one without.
FairInputs == { <<"example.com", "t1">>, <<"", NullStr>> }

NextFair ==
    \/ ConfigEmit
    \/ \E ok \in BOOLEAN : StartupAuth(ok)
    \/ StartupAuthResume
    \/ \E i \in Calls, a \in FairInputs : Auth(i, a[1], a[2])
    \/ \E i \in Calls : ExternalAbort(i)
    \/ \E i \in Calls : MakeAuthStatusResume(i)
    \/ \E i \in Calls : SaveEndpointResume(i)
    \/ \E i \in Calls : StoreTokenResume(i)
    \/ \E i \in Calls : SetContextResume(i)
    \/ \E i \in Calls : ClientConfigResume(i)
    \/ \E i \in Calls : SyncModelsResume(i)
    \/ \E i \in Calls : SetHasAuthenticatedBeforeResume(i)

\* Every operation a call awaits (validator, storage, command, sync)
\* eventually settles, so the call eventually resumes from each await.
AwaitsSettle ==
    \A i \in Calls :
        /\ WF_vars(MakeAuthStatusResume(i))
        /\ WF_vars(SaveEndpointResume(i))
        /\ WF_vars(StoreTokenResume(i))
        /\ WF_vars(SetContextResume(i))
        /\ WF_vars(ClientConfigResume(i))
        /\ WF_vars(SyncModelsResume(i))
        /\ WF_vars(SetHasAuthenticatedBeforeResume(i))

SpecFair == Init /\ [][NextFair]_vars /\ AwaitsSettle

\* ------------------------------------------------------- reloadAuthStatus
\* this.config.value.auth: the resolved configuration's credentials, the
\* last-used endpoint (the dotcom default without one) and the token stored
\* for it.
ConfigAuth ==
    LET e == IF lastUsedEndpoint = NullStr THEN DOTCOM_URL ELSE lastUsedEndpoint
    IN  [serverEndpoint |-> e, accessToken |-> secrets[e]]

\* The arguments reloadAuthStatus passes to auth().
ReloadArgs_NoToken(auth) == [endpoint |-> auth.serverEndpoint, token |-> NullStr]

ReloadArgs(auth) == [endpoint |-> auth.serverEndpoint, token |-> auth.accessToken]

\* reloadAuthStatus() is called: it invokes setContext('cody.activated', false).
Reload ==
    /\ reloadPc = "idle"
    /\ \E ok \in BOOLEAN :
        /\ contextFlag' = IF ok THEN FALSE ELSE contextFlag
        /\ reloadFailed' = ~ok
    /\ reloadPc' = "setContext"
    /\ UNCHANGED <<providerVars, storeVars, fired, telemetry, callVars, obsVars,
                   signoutVars, reloadCall, callbackVars, makeVars, newVars,
                   unitVars>>

\* reloadAuthStatus resumes after setContext: a rejection ends it, otherwise
\* it calls auth() with the configuration's credentials.
ReloadSetContextResume ==
    /\ reloadPc = "setContext"
    /\ UNCHANGED <<firstAuth, startupPc, signoutVars, callbackVars, newVars,
                   unitVars>>
    /\ IF reloadFailed
       THEN /\ reloadPc' = "failed"
            /\ reloadFailed' = FALSE
            /\ UNCHANGED <<status, inflightAuth, endpointHistory, lastEndpoint,
                           storeVars, hostVars, callVars, obsVars, makeVars, reloadCall>>
       ELSE /\ BeginAuth(nStarted + 1, ReloadArgs(ConfigAuth).endpoint,
                         ReloadArgs(ConfigAuth).token, FALSE)
            /\ reloadCall' = nStarted + 1
            /\ reloadPc' = "auth"
            /\ UNCHANGED reloadFailed

\* The auth() call reloadAuthStatus awaits has finished: reloadAuthStatus
\* returns its status or rejects with its abort error.
ReloadAuthResume ==
    /\ reloadPc = "auth"
    /\ pc[reloadCall] = "done"
    /\ reloadPc' = IF outcome[reloadCall] = "abort" THEN "failed" ELSE "done"
    /\ UNCHANGED <<providerVars, storeVars, hostVars, callVars, obsVars,
                   signoutVars, reloadCall, reloadFailed, callbackVars, makeVars, newVars,
                   unitVars>>

\* The session manager with a periodic reload beside sign-ins with and
\* without a token.
ReloadInputs == { <<"example.com", "t2">>, <<"example.com", NullStr>>, <<"", NullStr>> }

NextReload ==
    \/ \E i \in Calls, a \in ReloadInputs : Auth(i, a[1], a[2])
    \/ \E i \in Calls : ExternalAbort(i)
    \/ \E i \in Calls : MakeAuthStatusResume(i)
    \/ \E i \in Calls : SaveEndpointResume(i)
    \/ \E i \in Calls : StoreTokenResume(i)
    \/ \E i \in Calls : SetContextResume(i)
    \/ \E i \in Calls : ClientConfigResume(i)
    \/ \E i \in Calls : SyncModelsResume(i)
    \/ Reload
    \/ ReloadSetContextResume
    \/ ReloadAuthResume

SpecReload == Init /\ [][NextReload]_vars

\* ----------------------------- redirectToEndpointLogin, tokenCallbackHandler
\* The URIs given to redirectToEndpointLogin and the 'code' parameters of the
\* callback URI (absent: NullStr).
RedirectInputs == {"example.com", DOTCOM_URL, ""}

CallbackCodes == {"t1", NullStr}

\* tokenCallbackHandler: const endpoint = this.status.endpoint
CallbackEndpoint(st, redirected) == st.endpoint

\* redirectToEndpointLogin(uri) on the desktop: it returns for a URI that
\* does not normalize; otherwise it saves the endpoint as last used and,
\* unless the save is rejected, opens the endpoint's token page.
RedirectToEndpointLogin(uri) ==
    /\ redirectEndpoint = NullStr
    /\ callbackPc = "idle"
    /\ LET endpoint == FormatURL(uri)
       IN  \E ok \in BOOLEAN :
             LET done == endpoint # NullStr /\ ok
             IN  /\ lastUsedEndpoint' = IF done THEN endpoint ELSE lastUsedEndpoint
                 /\ storedHistory' = IF done THEN storedHistory \cup {endpoint}
                                     ELSE storedHistory
                 /\ redirectEndpoint' = IF done THEN endpoint ELSE NullStr
    /\ UNCHANGED <<providerVars, hasAuthenticatedBefore, secrets, hostVars, callVars,
                   obsVars, signoutVars, reloadVars, callbackCode, callbackPc,
                   callbackCall, makeVars, newVars,
                   unitVars>>

\* The token callback arrives: tokenCallbackHandler returns when the code or
\* the current status's endpoint is empty, otherwise it calls auth().
TokenCallbackHandler(code) ==
    /\ redirectEndpoint # NullStr
    /\ callbackPc = "idle"
    /\ callbackCode' = code
    /\ UNCHANGED <<firstAuth, startupPc, signoutVars, reloadVars, redirectEndpoint, newVars,
                   unitVars>>
    /\ LET endpoint == CallbackEndpoint(status, redirectEndpoint)
       IN  IF TokenIsEmpty(code) \/ endpoint = ""
           THEN /\ callbackPc' = "skipped"
                /\ UNCHANGED <<status, inflightAuth, endpointHistory, lastEndpoint,
                               storeVars, hostVars, callVars, obsVars, makeVars,
                               callbackCall>>
           ELSE /\ BeginAuth(nStarted + 1, endpoint, code, FALSE)
                /\ callbackCall' = nStarted + 1
                /\ callbackPc' = "auth"

\* The auth() call tokenCallbackHandler awaits has finished: the handler
\* rejects with its abort error or records the callback telemetry event.
TokenCallbackAuthResume ==
    /\ callbackPc = "auth"
    /\ pc[callbackCall] = "done"
    /\ IF outcome[callbackCall] = "abort"
       THEN callbackPc' = "failed" /\ UNCHANGED telemetry
       ELSE /\ callbackPc' = "done"
            /\ telemetry' = Append(telemetry, <<"cody.auth.fromCallback.web", "succeeded">>)
    /\ UNCHANGED <<providerVars, storeVars, contextFlag, fired, callVars, obsVars,
                   signoutVars, reloadVars, redirectEndpoint, callbackCode,
                   callbackCall, makeVars, newVars,
                   unitVars>>

\* The session manager with the browser sign-in flow beside sign-out and a
\* sign-in with a token.
NextCallback ==
    \/ \E i \in Calls : Auth(i, "example.com", "t2")
    \/ \E i \in Calls : MakeAuthStatusResume(i)
    \/ \E i \in Calls : SaveEndpointResume(i)
    \/ \E i \in Calls : StoreTokenResume(i)
    \/ \E i \in Calls : SetContextResume(i)
    \/ \E i \in Calls : ClientConfigResume(i)
    \/ \E i \in Calls : SyncModelsResume(i)
    \/ Signout
    \/ SignoutDeleteTokenResume
    \/ SignoutDeleteEndpointResume
    \/ SignoutAuthResume
    \/ SignoutSetContextResume
    \/ \E uri \in RedirectInputs : RedirectToEndpointLogin(uri)
    \/ \E code \in CallbackCodes : TokenCallbackHandler(code)
    \/ TokenCallbackAuthResume

SpecCallback == Init /\ [][NextCallback]_vars

\* ------------------------------------------------ makeAuthStatus on its own
\* The inputs of makeAuthStatus: the endpoint given to auth(), the token and,
\* when there is a token, the resolved validator results.
MakeInputs ==
    { [endpoint |-> e, token |-> t, r |-> r] :
        e \in RawEndpoints, t \in TokenInputs, r \in Responses \cup {NoResponse} }

InitMake ==
    /\ Construct
    /\ mkInput \in {m \in MakeInputs : TokenIsEmpty(m.token) <=> m.r = NoResponse}
    /\ mkStatus = Null
    /\ options = NoOptions
    /\ newStatus = Null
    /\ UnitsIdle

\* makeAuthStatus runs on the credentials auth() builds from its arguments.
ApplyMakeAuthStatus ==
    /\ mkStatus = Null
    /\ mkStatus' = MakeAuthStatus(ServerEndpoint(mkInput.endpoint), mkInput.token, mkInput.r)
    /\ UNCHANGED <<mkInput, otherVars, providerVars, storeVars, hostVars, callVars, obsVars,
                   signoutVars>>

NextMake == ApplyMakeAuthStatus

SpecMake == InitMake /\ [][NextMake]_vars

\* ------------------------------------------------------------ newAuthStatus
\* defaultAuthStatus
DefaultAuthStatus ==
    [endpoint |-> "", isDotCom |-> TRUE, isLoggedIn |-> FALSE,
     showInvalidAccessTokenError |-> FALSE, authenticated |-> FALSE,
     siteHasCodyEnabled |-> FALSE, siteVersion |-> "", username |-> "",
     primaryEmail |-> NullStr, displayName |-> "", avatarURL |-> "",
     codyApiVersion |-> 0]

\* unauthenticatedStatus
UnauthenticatedStatus_Default == DefaultAuthStatus

UnauthenticatedStatus ==
    [endpoint |-> "", isDotCom |-> TRUE, isLoggedIn |-> FALSE,
     showInvalidAccessTokenError |-> TRUE, authenticated |-> FALSE,
     siteHasCodyEnabled |-> FALSE, siteVersion |-> "", username |-> "",
     primaryEmail |-> NullStr, displayName |-> "", avatarURL |-> "",
     codyApiVersion |-> 0]

\* The user fields of the argument: the user of the tests, and one without
\* email and display name.
OptionUsers ==
    { [username |-> "cody", primaryEmail |-> "me@domain.test",
       displayName |-> "Test Name", avatarURL |-> "https://domain.test/avatar.png"],
      [username |-> "cody", primaryEmail |-> "",
       displayName |-> "", avatarURL |-> "https://domain.test/avatar.png"] }

\* The arguments newAuthStatus is given.
NewAuthOptions ==
    { [DefaultAuthStatus EXCEPT
          !.siteVersion = v, !.isDotCom = d, !.siteHasCodyEnabled = c,
          !.authenticated = a, !.endpoint = e, !.username = u.username,
          !.primaryEmail = u.primaryEmail, !.displayName = u.displayName,
          !.avatarURL = u.avatarURL] :
        v \in SiteVersions, d \in BOOLEAN, c \in BOOLEAN, a \in BOOLEAN,
        e \in {"", "https://example.com/", DOTCOM_URL}, u \in OptionUsers }

\* newAuthStatus(options)
NewAuthStatus(o) ==
    IF ~o.authenticated
    THEN [UnauthenticatedStatus EXCEPT !.endpoint = o.endpoint]
    ELSE [o EXCEPT !.showInvalidAccessTokenError = FALSE,
                   !.isLoggedIn = o.siteHasCodyEnabled /\ o.authenticated,
                   !.codyApiVersion = CodyApiVersion(o.siteVersion, o.isDotCom)]

InitNew ==
    /\ Construct
    /\ mkInput = NoInput
    /\ mkStatus = Null
    /\ options \in NewAuthOptions
    /\ newStatus = Null
    /\ UnitsIdle

ApplyNewAuthStatus ==
    /\ newStatus = Null
    /\ newStatus' = NewAuthStatus(options)
    /\ UNCHANGED <<options, providerVars, storeVars, hostVars, callVars, obsVars,
                   signoutVars, reloadVars, callbackVars, makeVars, unitVars>>

NextNew == ApplyNewAuthStatus

SpecNew == InitNew /\ [][NextNew]_vars

\* ================================================ LocalEmbeddingsController
\* Bound on the number of calls made to the controller.
MaxEmbOps == 3

\* Bound on the number of 'embeddings/index' requests sent.
MaxIndexSent == 2

\* The workspace folders start() finds, the configurations the controller is
\* constructed with, and the arguments of setAccessToken.
Dirs == {"/a", "/b"}

EmbeddingsConfigs ==
    { [serverEndpoint |-> DOTCOM_URL, accessToken |-> "t1"],
      [serverEndpoint |-> DOTCOM_URL, accessToken |-> NullStr],
      [serverEndpoint |-> "https://example.com/", accessToken |-> "t1"] }

SetTokenInputs ==
    { <<DOTCOM_URL, "t1">>, <<DOTCOM_URL, "t2">>, <<DOTCOM_URL, NullStr>>,
      <<"https://example.com/", "t1">> }

\* The name the engine gives the repository of a directory it has loaded.
RepoNameOf(dir) == "github.com" \o dir

\* The results of 'embeddings/index-health': not found, or found with the
\* number of items that still need an embedding.
HealthResults ==
    { [type |-> "notFound", numItemsNeedEmbedding |-> 0],
      [type |-> "found", numItemsNeedEmbedding |-> 0],
      [type |-> "found", numItemsNeedEmbedding |-> 5] }

\* canAutoIndex(): this.modelConfig.provider === 'sourcegraph'; both model
\* configurations have that provider.
CanAutoIndex == TRUE

\* The state the status getter reports ("empty" for no context group); the
\* states of a loaded directory without an index are not told apart.
EmbeddingsStatus ==
    IF ~endpointIsDotcom THEN "empty"
    ELSE IF lastRepo = Null THEN "indeterminate"
    ELSE IF dirBeingIndexed = lastRepo.dir THEN "indexing"
    ELSE IF lastRepo.repoName # "" THEN "ready"
    ELSE "unconsented or no-match"

\* indexRequest sends 'embeddings/index' for dir; the engine starts indexing
\* unless it refuses, which it does while it is indexing.
SendIndex(dir) ==
    \E accept \in BOOLEAN :
        /\ indexSent < MaxIndexSent
        /\ engineIndexing # NullStr => ~accept
        /\ indexRequests' = indexRequests \cup {[dir |-> dir, ok |-> accept]}
        /\ engineIndexing' = IF accept THEN dir ELSE engineIndexing
        /\ indexSent' = indexSent + 1

\* index(): the guard before indexRequest.
CanIndex == endpointIsDotcom /\ lastRepo # Null /\ lastRepo.repoName = ""

\* indexRetry(): the guard before indexRequest.
CanIndexRetry_AnyEndpoint == lastRepo # Null

CanIndexRetry == endpointIsDotcom /\ lastRepo # Null

\* start(): getService() starts the service if there is none, and
\* eagerlyLoad(dir) follows once the service is there.
Start(dir) ==
    /\ embOps < MaxEmbOps
    /\ embOps' = embOps + 1
    /\ service' = IF service = "none" THEN "initializing" ELSE service
    /\ loadRequests' = loadRequests \cup {[dir |-> dir, auto |-> TRUE]}
    /\ lastCall' = [op |-> "start", dir |-> dir, sent |-> FALSE, results |-> FALSE]
    /\ UNCHANGED <<serviceStarted, accessToken, endpointIsDotcom, lastRepo, lastHealth,
                   lastError, dirBeingIndexed, hasIssue, engineToken, engineIndexing,
                   healthRequests, indexRequests, setTokenRequests, indexSent, querySent,
                   besideEmbeddings>>

\* setupLocalEmbeddingsService resumes after 'embeddings/initialize': it
\* sends the access token if there is one, else the service has started.
SetupInitialized ==
    /\ service = "initializing"
    /\ IF accessToken # NullStr
       THEN /\ engineToken' = accessToken
            /\ service' = "settingToken"
            /\ UNCHANGED serviceStarted
       ELSE /\ serviceStarted' = TRUE
            /\ service' = "ready"
            /\ UNCHANGED engineToken
    /\ UNCHANGED <<accessToken, endpointIsDotcom, lastRepo, lastHealth, lastError,
                   dirBeingIndexed, hasIssue, engineIndexing, loadRequests, healthRequests,
                   indexRequests, setTokenRequests, embOps, indexSent, querySent, lastCall,
                   besideEmbeddings>>

\* setupLocalEmbeddingsService resumes after 'embeddings/set-token'.
SetupTokenSet ==
    /\ service = "settingToken"
    /\ serviceStarted' = TRUE
    /\ service' = "ready"
    /\ UNCHANGED <<accessToken, endpointIsDotcom, lastRepo, lastHealth, lastError,
                   dirBeingIndexed, hasIssue, engineToken, engineIndexing, loadRequests,
                   healthRequests, indexRequests, setTokenRequests, embOps, indexSent,
                   querySent, lastCall, besideEmbeddings>>

\* setAccessToken: if (token && this.serviceStarted)
SendsToken_Always(token, started) == ~TokenIsEmpty(token)

SendsToken(token, started) == ~TokenIsEmpty(token) /\ started

\* setAccessToken(serverEndpoint, token); the request goes out in the same
\* turn, as getService() is settled once serviceStarted is set.
SetAccessToken(serverEndpoint, token) ==
    /\ embOps < MaxEmbOps
    /\ embOps' = embOps + 1
    /\ endpointIsDotcom' = IsDotCom(serverEndpoint)
    /\ lastCall' = [op |-> "setAccessToken", dir |-> "", sent |-> FALSE, results |-> FALSE]
    /\ IF token # NullStr /\ token = accessToken
       THEN UNCHANGED <<accessToken, engineToken, setTokenRequests>>
       ELSE /\ accessToken' = TokenOrUndefined(token)
            /\ IF SendsToken(token, serviceStarted)
               THEN /\ engineToken' = token
                    /\ setTokenRequests' = setTokenRequests + 1
               ELSE UNCHANGED <<engineToken, setTokenRequests>>
    /\ UNCHANGED <<service, serviceStarted, lastRepo, lastHealth, lastError,
                   dirBeingIndexed, hasIssue, engineIndexing, loadRequests, healthRequests,
                   indexRequests, indexSent, querySent, besideEmbeddings>>

\* setAccessToken resumes after 'embeddings/set-token' and returns.
SetTokenResume ==
    /\ setTokenRequests > 0
    /\ setTokenRequests' = setTokenRequests - 1
    /\ UNCHANGED <<service, serviceStarted, accessToken, endpointIsDotcom, lastRepo,
                   lastHealth, lastError, dirBeingIndexed, hasIssue, engineToken,
                   engineIndexing, loadRequests, healthRequests, indexRequests, embOps,
                   indexSent, querySent, lastCall, besideEmbeddings>>

\* eagerlyLoad resumes after 'embeddings/load', which gave a repository name
\* or failed; a successful load starts a health check, and start() calls
\* index() after a failed one.
LoadResume(req, ok) ==
    /\ req \in loadRequests
    /\ service = "ready"
    /\ loadRequests' = loadRequests \ {req}
    /\ lastRepo' = [dir |-> req.dir, repoName |-> IF ok THEN RepoNameOf(req.dir) ELSE ""]
    /\ healthRequests' = IF ok THEN healthRequests \cup {req.dir} ELSE healthRequests
    /\ IF req.auto /\ ~ok /\ CanAutoIndex /\ endpointIsDotcom
       THEN SendIndex(req.dir)
       ELSE UNCHANGED <<indexRequests, engineIndexing, indexSent>>
    /\ UNCHANGED <<service, serviceStarted, accessToken, endpointIsDotcom, lastHealth,
                   lastError, dirBeingIndexed, hasIssue, engineToken, setTokenRequests,
                   embOps, querySent, lastCall, besideEmbeddings>>

\* onHealthReport: if (repoDir.toString() !== this.lastRepo?.dir.toString()) return
HealthReportIsCurrent_Always(repoDir, repo) == TRUE

HealthReportIsCurrent(repoDir, repo) == repo # Null /\ repo.dir = repoDir

\* The health check of dir resumes with the result h; a found index is
\* passed to onHealthReport, which retries indexing or raises the issue flag
\* when items still need an embedding.
\* lastCall.results records whether the check found an index.
HealthReport(dir, h) ==
    /\ dir \in healthRequests
    /\ healthRequests' = healthRequests \ {dir}
    /\ lastCall' = [op |-> "onHealthReport", dir |-> dir, sent |-> FALSE,
                    results |-> h.type = "found"]
    /\ IF h.type = "found" /\ HealthReportIsCurrent(dir, lastRepo)
       THEN /\ lastHealth' = h
            /\ IF h.numItemsNeedEmbedding > 0
               THEN IF CanAutoIndex /\ lastError = NullStr
                    THEN /\ IF CanIndexRetry
                            THEN SendIndex(lastRepo.dir)
                            ELSE UNCHANGED <<indexRequests, engineIndexing, indexSent>>
                         /\ UNCHANGED hasIssue
                    ELSE /\ hasIssue' = TRUE
                         /\ UNCHANGED <<indexRequests, engineIndexing, indexSent>>
               ELSE UNCHANGED <<hasIssue, indexRequests, engineIndexing, indexSent>>
       ELSE UNCHANGED <<lastHealth, hasIssue, indexRequests, engineIndexing, indexSent>>
    /\ UNCHANGED <<service, serviceStarted, accessToken, endpointIsDotcom, lastRepo,
                   lastError, dirBeingIndexed, engineToken, loadRequests, setTokenRequests,
                   embOps, querySent, besideEmbeddings>>

\* index()
Index ==
    /\ embOps < MaxEmbOps
    /\ embOps' = embOps + 1
    /\ lastCall' = [op |-> "index", dir |-> "", sent |-> CanIndex, results |-> FALSE]
    /\ IF CanIndex
       THEN SendIndex(lastRepo.dir)
       ELSE UNCHANGED <<indexRequests, engineIndexing, indexSent>>
    /\ UNCHANGED <<service, serviceStarted, accessToken, endpointIsDotcom, lastRepo,
                   lastHealth, lastError, dirBeingIndexed, hasIssue, engineToken,
                   loadRequests, healthRequests, setTokenRequests, querySent, besideEmbeddings>>

\* indexRetry(), as the resolve-issue command calls it.
IndexRetry ==
    /\ embOps < MaxEmbOps
    /\ embOps' = embOps + 1
    /\ lastCall' = [op |-> "indexRetry", dir |-> "", sent |-> CanIndexRetry,
                    results |-> FALSE]
    /\ IF CanIndexRetry
       THEN SendIndex(lastRepo.dir)
       ELSE UNCHANGED <<indexRequests, engineIndexing, indexSent>>
    /\ UNCHANGED <<service, serviceStarted, accessToken, endpointIsDotcom, lastRepo,
                   lastHealth, lastError, dirBeingIndexed, hasIssue, engineToken,
                   loadRequests, healthRequests, setTokenRequests, querySent, besideEmbeddings>>

\* indexRequest resumes after 'embeddings/index': on success it records the
\* directory being indexed, a rejection is logged.
IndexResponse(req) ==
    /\ req \in indexRequests
    /\ indexRequests' = indexRequests \ {req}
    /\ dirBeingIndexed' = IF req.ok THEN req.dir ELSE dirBeingIndexed
    /\ UNCHANGED <<service, serviceStarted, accessToken, endpointIsDotcom, lastRepo,
                   lastHealth, lastError, hasIssue, engineToken, engineIndexing,
                   loadRequests, healthRequests, setTokenRequests, embOps, indexSent,
                   querySent, lastCall, besideEmbeddings>>

\* loadAfterIndexing: the directory to load again, if any.
LoadsAfterIndexing ==
    dirBeingIndexed # NullStr /\ (lastRepo = Null \/ lastRepo.dir = dirBeingIndexed)

\* An 'embeddings/progress' notification arrives from the indexing engine:
\* progress, or the end of indexing (done or error), after which the
\* controller runs loadAfterIndexing.
ProgressNotification(type) ==
    /\ engineIndexing # NullStr
    /\ lastError' = IF type = "error" THEN "indexing failed" ELSE NullStr
    /\ IF type = "progress"
       THEN UNCHANGED <<engineIndexing, loadRequests, dirBeingIndexed>>
       ELSE /\ engineIndexing' = NullStr
            /\ loadRequests' = IF LoadsAfterIndexing
                               THEN loadRequests \cup {[dir |-> dirBeingIndexed, auto |-> FALSE]}
                               ELSE loadRequests
            /\ dirBeingIndexed' = NullStr
    /\ UNCHANGED <<service, serviceStarted, accessToken, endpointIsDotcom, lastRepo,
                   lastHealth, hasIssue, engineToken, healthRequests, indexRequests,
                   setTokenRequests, embOps, indexSent, querySent, lastCall, besideEmbeddings>>

\* getContext(query, numResults): an 'embeddings/query' for the loaded
\* repository, which gives results or none.
GetContext ==
    /\ embOps < MaxEmbOps
    /\ embOps' = embOps + 1
    /\ \E found \in BOOLEAN :
        LET sends == endpointIsDotcom /\ lastRepo # Null /\ lastRepo.repoName # ""
        IN  /\ querySent' = IF sends THEN querySent + 1 ELSE querySent
            /\ lastCall' = [op |-> "getContext", dir |-> "", sent |-> sends,
                            results |-> sends /\ found]
    /\ UNCHANGED <<service, serviceStarted, accessToken, endpointIsDotcom, lastRepo,
                   lastHealth, lastError, dirBeingIndexed, hasIssue, engineToken,
                   engineIndexing, loadRequests, healthRequests, indexRequests,
                   setTokenRequests, indexSent, besideEmbeddings>>

InitEmbeddings ==
    /\ Construct
    /\ mkInput = NoInput
    /\ mkStatus = Null
    /\ options = NoOptions
    /\ newStatus = Null
    /\ \E config \in EmbeddingsConfigs : ConstructEmbeddings(config)
    /\ ConstructGhostHint(FALSE, FALSE)
    /\ SingletonsIdle
    /\ ParseIdle

NextEmbeddings ==
    \/ \E dir \in Dirs : Start(dir)
    \/ SetupInitialized
    \/ SetupTokenSet
    \/ \E a \in SetTokenInputs : SetAccessToken(a[1], a[2])
    \/ SetTokenResume
    \/ \E req \in loadRequests, ok \in BOOLEAN : LoadResume(req, ok)
    \/ \E dir \in Dirs, h \in HealthResults : HealthReport(dir, h)
    \/ Index
    \/ IndexRetry
    \/ \E req \in indexRequests : IndexResponse(req)
    \/ \E type \in {"progress", "done", "error"} : ProgressNotification(type)
    \/ GetContext

SpecEmbeddings == InitEmbeddings /\ [][NextEmbeddings]_vars

\* ------------------------------------------------------------ GhostHintDecorator

\* The number of updateEnablement calls, the constructor's included.
MaxUpdates == 3

\* updateEnablement(authStatus) is called and awaits getGhostHintEnablement,
\* which reads the configuration at the call.
CallUpdateEnablement(loggedIn, enabled) ==
    /\ updateCalls < MaxUpdates
    /\ updateCalls' = updateCalls + 1
    /\ pendingUpdates' = pendingUpdates \cup
            {[id |-> updateCalls + 1, isLoggedIn |-> loggedIn, featureEnabled |-> enabled]}
    /\ UNCHANGED <<isActive, disposables, enrollmentListener, liveEnrollment,
                   selectionLogs, loggedSinceUpdate, besideGhost>>

\* authProvider.addChangeListener(authStatus => this.updateEnablement(authStatus))
AuthChanged(loggedIn) ==
    /\ ghostAuth' = loggedIn
    /\ UNCHANGED hintsEnabled
    /\ CallUpdateEnablement(loggedIn, hintsEnabled)

\* onDidChangeConfiguration: updateEnablement(authProvider.getAuthStatus())
ConfigurationChanged(enabled) ==
    /\ hintsEnabled' = enabled
    /\ UNCHANGED ghostAuth
    /\ CallUpdateEnablement(ghostAuth, enabled)

\* updateEnablement resumes with the enablement it awaited: it registers an
\* enrollment listener, then disposes or initialises the decorator.
UpdateEnablementResume(u) ==
    /\ u \in pendingUpdates
    /\ pendingUpdates' = pendingUpdates \ {u}
    /\ liveEnrollment' = liveEnrollment \cup {[id |-> u.id, variant |-> u.featureEnabled]}
    /\ enrollmentListener' = u.id
    /\ loggedSinceUpdate' = FALSE
    /\ IF ~u.isLoggedIn \/ ~u.featureEnabled
       THEN /\ isActive' = FALSE
            /\ disposables' = 0
       ELSE IF ~isActive
            THEN /\ isActive' = TRUE
                 /\ disposables' = disposables + 1
            ELSE UNCHANGED <<isActive, disposables>>
    /\ UNCHANGED <<updateCalls, ghostAuth, hintsEnabled, selectionLogs, besideGhost>>

\* The selection changes. Every live enrollment listener whose handler runs
\* logs the event when the ghost text would show and disposes
\* this.enrollmentListener, the listener registered last; whether that one
\* still runs after an earlier handler of the same event disposed it is up to
\* the event emitter.
SelectionChange(ghostTextWouldShow) ==
    LET k == Cardinality(liveEnrollment)
        refLive == \E l \in liveEnrollment : l.id = enrollmentListener
        logs == IF ~ghostTextWouldShow THEN {0}
                ELSE IF refLive /\ k > 1 THEN {k - 1, k}
                ELSE {k}
    IN  \E n \in logs :
            /\ selectionLogs' = n
            /\ loggedSinceUpdate' = (loggedSinceUpdate \/ n > 0)
            /\ liveEnrollment' = IF n > 0
                                 THEN {l \in liveEnrollment : l.id # enrollmentListener}
                                 ELSE liveEnrollment
            /\ UNCHANGED <<isActive, disposables, enrollmentListener, pendingUpdates,
                           updateCalls, ghostAuth, hintsEnabled, besideGhost>>

InitGhost ==
    /\ Construct
    /\ mkInput = NoInput
    /\ mkStatus = Null
    /\ options = NoOptions
    /\ newStatus = Null
    /\ ConstructEmbeddings([serverEndpoint |-> DOTCOM_URL, accessToken |-> NullStr])
    /\ \E loggedIn \in BOOLEAN, enabled \in BOOLEAN : ConstructGhostHint(loggedIn, enabled)
    /\ SingletonsIdle
    /\ ParseIdle

NextGhost ==
    \/ \E loggedIn \in BOOLEAN : AuthChanged(loggedIn)
    \/ \E enabled \in BOOLEAN : ConfigurationChanged(enabled)
    \/ \E u \in pendingUpdates : UpdateEnablementResume(u)
    \/ \E w \in BOOLEAN : SelectionChange(w)

SpecGhost == InitGhost /\ [][NextGhost]_vars

\* ------------------------------------------------------------ singletons

\* The values of a property.
PropValues == {"1", "2"}

\* The prototypes of the instances.
Protos == {"A", "B"}

\* The instances given to setSingleton: objects of a class with up to two
\* own enumerable properties, none of them the marker.
Instances ==
    {[proto |-> p, props |-> f] :
        p \in Protos,
        f \in {h \in [Keys -> PropValues \cup {Absent}] : h["__singletonNotYetSet"] = Absent}}

\* '__singletonNotYetSet' in container
IsNotYetSet_Always(container) == TRUE

IsNotYetSet(container) == container.props["__singletonNotYetSet"] # Absent

\* deepAssign(target, source): the prototype of source and each of its own
\* properties are put on target; the other properties of target stay.
DeepAssign(target, source) ==
    [proto |-> source.proto,
     props |-> [k \in Keys |-> IF source.props[k] # Absent THEN source.props[k]
                                ELSE target.props[k]]]

\* delete container.__singletonNotYetSet
DeleteMarker(container) ==
    [container EXCEPT !.props["__singletonNotYetSet"] = Absent]

\* setSingleton(container, instance)
SetSingleton(c, instance) ==
    /\ IF ~IsNotYetSet(containers[c])
       THEN /\ lastSet' = [container |-> c, instance |-> instance, threw |-> TRUE]
            /\ UNCHANGED containers
       ELSE /\ containers' =
                 [containers EXCEPT ![c] = DeepAssign(DeleteMarker(containers[c]), instance)]
            /\ lastSet' = [container |-> c, instance |-> instance, threw |-> FALSE]
    /\ UNCHANGED besideSingletons

InitSingletons ==
    /\ Construct
    /\ mkInput = NoInput
    /\ mkStatus = Null
    /\ options = NoOptions
    /\ newStatus = Null
    /\ UnitsIdle

NextSingletons ==
    \E c \in DOMAIN containers, instance \in Instances : SetSingleton(c, instance)

SpecSingletons == InitSingletons /\ [][NextSingletons]_vars

\* ------------------------------------------------------------ parseProviderAndModel

\* The longest model id.
MaxModelLen == 3

\* The characters of a model id: a letter and the two delimiters.
ModelChars == {"a", "/", "."}

\* The model ids, as sequences of characters.
ModelIds == UNION {[1..n -> ModelChars] : n \in 0..MaxModelLen}

Providers == {"sourcegraph", "aws-bedrock", "anthropic"}

\* delimiters[provider] (NullStr for undefined)
Delimiters(provider) ==
    CASE provider = "sourcegraph" -> "/"
      [] provider = "aws-bedrock" -> "."
      [] OTHER -> NullStr

\* String.prototype.indexOf: the index, from 0, of the first c in str, or -1.
IndexOf(str, c) ==
    IF \E i \in 1..Len(str) : str[i] = c
    THEN (CHOOSE i \in 1..Len(str) : str[i] = c /\ \A j \in 1..(i - 1) : str[j] # c) - 1
    ELSE -1

\* How slice reads an index: a negative one counts from the end.
SliceIndex(str, i) ==
    IF i < 0
    THEN (IF Len(str) + i < 0 THEN 0 ELSE Len(str) + i)
    ELSE (IF i > Len(str) THEN Len(str) ELSE i)

\* String.prototype.slice(start, end)
Slice(str, start, end) ==
    SubSeq(str, SliceIndex(str, start) + 1, SliceIndex(str, end))

\* parseProviderAndModel({ provider, modelId })
ParseProviderAndModel(a) ==
    LET delimiter == Delimiters(a.provider)
        index == IndexOf(a.modelId, delimiter)
        parsedProvider == Slice(a.modelId, 0, index)
        parsedModel == Slice(a.modelId, index + 1, Len(a.modelId))
        truthy == a.hasModelId /\ a.modelId # <<>>
    IN  IF delimiter = NullStr
        THEN [kind |-> "unchanged", provider |-> a.provider,
              hasModelId |-> a.hasModelId, modelId |-> a.modelId]
        ELSE IF truthy /\ parsedProvider # <<>> /\ parsedModel # <<>>
        THEN [kind |-> "parsed", provider |-> parsedProvider, modelId |-> parsedModel]
        ELSE [kind |-> "error",
              message |-> IF truthy THEN "Failed to parse the model name"
                          ELSE "Model missing but delimiter expected"]

\* The arguments: a provider and a model id or none.
ParseInputs ==
    {[provider |-> p, hasModelId |-> TRUE, modelId |-> id] : p \in Providers, id \in ModelIds}
    \cup {[provider |-> p, hasModelId |-> FALSE, modelId |-> <<>>] : p \in Providers}

Parse(a) ==
    /\ parseArgs' = a
    /\ parseResult' = ParseProviderAndModel(a)
    /\ UNCHANGED besideParse

InitParse ==
    /\ Construct
    /\ mkInput = NoInput
    /\ mkStatus = Null
    /\ options = NoOptions
    /\ newStatus = Null
    /\ UnitsIdle

NextParse == \E a \in ParseInputs : Parse(a)

SpecParse == InitParse /\ [][NextParse]_vars

\* The shape of an AuthStatus value.
IsStatus(st) ==
    /\ st.endpoint \in RawEndpoints \cup StoredEndpoints
    /\ st.isDotCom = IsDotCom(st.endpoint)
    /\ st.isLoggedIn \in BOOLEAN
    /\ st.showInvalidAccessTokenError \in BOOLEAN
    /\ st.ephemeralConnectivityStatus \in {"unknown", "online", "offline", "error"}
    /\ st.isLoggedIn => (st.user # Null /\ st.site # Null)

\* ------------------------------------------------------------------ claims
\* C1: when auth() calls overlap, once every call has finished and the last
\* initiated call has returned a status, that status is the current one.
C1_LastInitiatedCallWins ==
    ( /\ nStarted >= 2
      /\ \A i \in 1..nStarted : pc[i] = "done"
      /\ \E i \in 1..nStarted : superseded[i]
      /\ outcome[nStarted] = "status" )
    => status = result[nStarted]

\* C2: a call that ends in cancellation has never assigned the current status.
C2_CancelledCallCommitsNothing ==
    \A i \in Calls : outcome[i] = "abort" => ~committed[i]

\* C3: a call never writes its endpoint or its token to a store once a newer
\* call has begun.
C3_SupersededCallNeverWrites ==
    \A i \in Calls : ~staleWrite[i]

\* C4: a call that was superseded by a newer call never returns a status.
C4_SupersededCallNeverReturnsStatus ==
    \A i \in Calls : superseded[i] => outcome[i] # "status"

\* C5 (as stated): auth() throws nothing but the abort error, and the status
\* returned by a call in which a non-abort failure was raised, the commit
\* included, has isLoggedIn = false.
C5_EveryFailureBecomesNotLoggedIn ==
    \A i \in Calls :
        /\ outcome[i] # "error"
        /\ (raised[i] # "none" /\ outcome[i] = "status") => ~result[i].isLoggedIn

\* C5 (amended): auth() throws nothing but the abort error, and a non-abort
\* failure that reaches its catch block (raised while validating, persisting,
\* setting the context flag or recording the startup login) makes the call
\* return a status with isLoggedIn = false.
C5_OnlyAbortIsThrown ==
    \A i \in Calls :
        /\ outcome[i] # "error"
        /\ raised[i] = "caught" => (outcome[i] = "status" /\ ~result[i].isLoggedIn)

C5_Witness ==
    \E i \in Calls :
        raised[i] = "caught" /\ outcome[i] = "status" /\ committed[i]

\* C6: the change event is fired, and the cody.auth telemetry event recorded,
\* only by a call leaving setAuthStatus whose signal is not aborted.
C6_FireOnlyIfNotAborted ==
    [][ \/ (fired' = fired /\ \A k \in 1..Len(telemetry') :
                                  k > Len(telemetry) => telemetry'[k][1] # "cody.auth")
        \/ \E i \in Calls :
              /\ pc[i] \in {"clientConfig", "syncModels"}
              /\ pc'[i] # pc[i]
              /\ ~aborted[i]
              /\ fired' = Append(fired, status)
              /\ Len(telemetry') > Len(telemetry)
              /\ telemetry'[Len(telemetry) + 1] = <<"cody.auth", EventValue(authStatus[i])>> ]_vars

C6_Witness ==
    \E i, j \in Calls :
        /\ committed[i] /\ outcome[i] = "abort"
        /\ committed[j] /\ outcome[j] = "status"
        /\ Len(fired) = 1

C8_NoTokenNoValidation ==
    \A i \in 1..nStarted :
        args[i].token \in {NullStr, ""} =>
            /\ ~validatorCalled[i]
            /\ \A st \in {authStatus[i], result[i]} \ {Null} :
                  ~st.isLoggedIn /\ st.user = Null /\ st.site = Null

C8_Witness ==
    \E i \in Calls :
        args[i].token = "" /\ outcome[i] = "status" /\ committed[i] /\ status = result[i]

\* C9: when the user-info call returned no error, isLoggedIn is true exactly
\* when siteHasCodyEnabled is true and the user info is not null.
C9_LoggedInIffEnabledAndUser ==
    (mkStatus # Null /\ mkInput.r # NoResponse /\ ~IsError(mkInput.r.userInfo))
        => /\ mkStatus.isLoggedIn = (mkInput.r.enabled /\ mkInput.r.userInfo # Null)
           /\ mkStatus.site.siteHasCodyEnabled = mkInput.r.enabled
           /\ (mkStatus.user # Null) = (mkInput.r.userInfo # Null)

C9_Witness ==
    /\ mkStatus # Null
    /\ mkInput.r # NoResponse
    /\ mkInput.r.userInfo = UserInfo
    /\ ~mkInput.r.enabled
    /\ ~mkStatus.isLoggedIn

\* C10 (as stated): a structured error from any of the validator calls makes
\* the status not logged in.
C10_AnyValidatorErrorNotLoggedIn ==
    (mkStatus # Null /\ mkInput.r # NoResponse
        /\ (IsError(mkInput.r.userInfo) \/ IsError(mkInput.r.llm)))
        => ~mkStatus.isLoggedIn

\* C10 (amended): an error from the user-info call makes the status not
\* logged in, with user and site null; an error from the LLM-configuration
\* call alone only leaves configOverwrites unset, and isLoggedIn is then
\* siteHasCodyEnabled && userInfo !== null.
C10_OnlyUserInfoErrorFailsValidation ==
    (mkStatus # Null /\ mkInput.r # NoResponse) =>
        /\ IsError(mkInput.r.userInfo) =>
              (~mkStatus.isLoggedIn /\ mkStatus.user = Null /\ mkStatus.site = Null)
        /\ (IsError(mkInput.r.llm) /\ ~IsError(mkInput.r.userInfo)) =>
              /\ mkStatus.site.configOverwrites = Null
              /\ mkStatus.isLoggedIn = (mkInput.r.enabled /\ mkInput.r.userInfo # Null)

C10_Witness ==
    /\ mkStatus # Null
    /\ mkInput.r # NoResponse
    /\ IsError(mkInput.r.userInfo)
    /\ ~IsError(mkInput.r.llm)
    /\ mkInput.r.enabled
    /\ ~mkStatus.isLoggedIn

\* C11: a call whose endpoint formatURL rejects issues no validator request,
\* even when it is given a token, returns a status that is not logged in and
\* leaves the persisted endpoint, history and tokens as they were.
C11_InvalidEndpointAbandoned ==
    \A i \in 1..nStarted :
        FormatURL(args[i].endpoint) = NullStr => ~validatorCalled[i]

\* C12: when validation finishes for a call that is not cancelled and has a
\* valid endpoint, the call saves the endpoint as last used and then, given a
\* non-empty token, stores the token under the normalized endpoint, whether
\* or not the status is logged in (each write takes effect unless that store
\* operation fails); a call whose validation aborted or was rejected leaves
\* the stores untouched.
C12_PersistAfterValidation ==
    [][ \A i \in Calls :
          LET e == ServerEndpoint(args[i].endpoint)
          IN  /\ (pc[i] = "makeAuthStatus" /\ pc'[i] # pc[i]) =>
                    IF aborted[i] \/ pc'[i] = "done"
                    THEN pc'[i] = "done" /\ storeVars' = storeVars
                    ELSE e # "" =>
                           /\ pc'[i] = "saveEndpoint"
                           /\ ioFailed'[i] \/ (lastUsedEndpoint' = e /\ e \in storedHistory')
              /\ (pc[i] = "saveEndpoint" /\ pc'[i] # pc[i] /\ ~ioFailed[i]
                    /\ args[i].token \notin {NullStr, ""}) =>
                    /\ pc'[i] = "storeToken"
                    /\ ioFailed'[i] \/ secrets'[e] = args[i].token ]_vars

C12_Witness ==
    \E i \in Calls :
        /\ pc[i] = "setContext"
        /\ authStatus[i] # Null /\ ~authStatus[i].isLoggedIn
        /\ args[i].token = "t2"
        /\ secrets["https://example.com/"] = "t2"
        /\ lastUsedEndpoint = "https://example.com/"

\* C13: a rejected saveEndpoint or storeToken does not end the call: the call
\* goes on to commit and return the status validation produced.
C13_StoreFailureSwallowed ==
    [][ \A i \in Calls :
          (pc[i] \in {"saveEndpoint", "storeToken"} /\ ioFailed[i] /\ pc'[i] # pc[i])
              => pc'[i] # "done" ]_vars

\* C16: the failure status is classified from the user-info error: a 401, 403
\* or 404 error sets showInvalidAccessTokenError with isLoggedIn = false, a
\* fetch-level failure sets the connectivity to offline, and every other
\* error sets the connectivity to error and leaves showInvalidAccessTokenError
\* false.
C16_FailureClassified ==
    (mkStatus # Null /\ mkInput.r # NoResponse /\ IsError(mkInput.r.userInfo)) =>
        LET msg == mkInput.r.userInfo.message
            invalid == {"HTTP status code 401", "HTTP status code 403: Forbidden",
                        "http status code 404"}
            unreachable == {"TypeError: Failed to fetch"}
        IN  /\ ~mkStatus.isLoggedIn
            /\ msg \in invalid => mkStatus.showInvalidAccessTokenError
            /\ msg \in unreachable => mkStatus.ephemeralConnectivityStatus = "offline"
            /\ msg \notin invalid \cup unreachable =>
                  /\ mkStatus.ephemeralConnectivityStatus = "error"
                  /\ ~mkStatus.showInvalidAccessTokenError

C16_Witness ==
    /\ mkStatus # Null
    /\ mkInput.r # NoResponse
    /\ mkInput.r.userInfo = ErrorOf("TypeError: Failed to fetch")
    /\ mkStatus.ephemeralConnectivityStatus = "offline"
    /\ ~mkStatus.showInvalidAccessTokenError

\* C17: whenever no operation is in progress, the 'cody.activated' context
\* flag equals the isLoggedIn of the current status.
C17_ContextFlagReflectsIsLoggedIn ==
    ( /\ \A i \in Calls : pc[i] \in {"idle", "done"}
      /\ startupPc # "getToken"
      /\ nStarted >= 1 )
    => contextFlag = status.isLoggedIn

\* C19: the derived codyApiVersion is 0 for site version "5.2.0" on an
\* endpoint that is not dotcom, and 1 for every version string on dotcom.
C19_ApiVersionLegacyAndDotCom ==
    (mkStatus # Null /\ mkStatus.site # Null) =>
        /\ (mkInput.r.version = "5.2.0" /\ ~mkStatus.isDotCom)
              => mkStatus.site.codyApiVersion = 0
        /\ mkStatus.isDotCom => mkStatus.site.codyApiVersion = 1

C19_Witness ==
    /\ mkStatus # Null /\ mkStatus.site # Null
    /\ mkStatus.isDotCom
    /\ mkInput.r.version = "5.2.0"
    /\ mkStatus.site.codyApiVersion = 1

CountFirstEver ==
    Cardinality({k \in 1..Len(telemetry) : telemetry[k] = <<"cody.auth.login", "firstEver">>})

C14_EmitsOncePerCommittedStatus ==
    /\ \A k \in 1..(Len(Changes) - 1) : Changes[k] # Changes[k + 1]
    /\ ( /\ \A i \in Calls : pc[i] \in {"idle", "done"}
          /\ startupPc # "getToken" )
       => Changes[Len(Changes)] = status

\* C15: when signout(endpoint) completes, no other auth() call having begun
\* since signout started, the credential store holds no token for that
\* endpoint, also when an auth() call for that endpoint was in flight as
\* signout started.
C15_SignOutClearsToken ==
    [][ ( /\ signoutPc # "done" /\ signoutPc' = "done"
          /\ signoutCall = signoutAt + 1
          /\ nStarted' = signoutCall )
        => secrets'[signoutEndpoint] = NullStr ]_vars

\* ------------------------------------------------------------ getAuthStatus
\* getAuthStatus(): if (!this.status) throw new Error('AuthStatus is not ready')
GetAuthStatusFails == status = Null

\* C22: getAuthStatus never fails in a state reachable after construction:
\* the status is never null, and until the first call commits it is the
\* logged-out placeholder (not logged in, no user, no site, connectivity
\* unknown) for the last-used endpoint or, without one, the dotcom default.
C22_GetAuthStatusNeverFails ==
    /\ ~GetAuthStatusFails
    /\ (\A i \in Calls : ~committed[i]) =>
          /\ status.isLoggedIn = FALSE
          /\ status.user = Null
          /\ status.site = Null
          /\ status.ephemeralConnectivityStatus = "unknown"
          /\ status.endpoint = lastEndpoint
          /\ lastEndpoint \in {DOTCOM_URL, "https://example.com/"}

\* One call has committed a status and a call has ended in a failure.
C22_Witness ==
    /\ ~GetAuthStatusFails
    /\ \E i, j \in Calls :
          /\ committed[i]
          /\ pc[i] = "done"
          /\ raised[j] # "none"
          /\ pc[j] = "done"

\* ------------------------------------------------------- the in-flight slot
\* C25: the in-flight slot is null or holds the controller of the most
\* recently started call, which has not finished; and a call that finishes
\* while another call's controller is in the slot leaves the slot as it is.
C25_SlotBelongsToLatestUnfinished ==
    [][ /\ \/ inflightAuth' = 0
           \/ /\ inflightAuth' = nStarted'
              /\ pc'[inflightAuth'] \notin {"idle", "done"}
        /\ \A i \in Calls :
              (pc[i] # "done" /\ pc'[i] = "done" /\ inflightAuth # i)
                  => inflightAuth' = inflightAuth ]_vars

\* A superseded call has finished while its successor, still running, holds
\* the slot.
C25_Witness ==
    \E i \in Calls :
        /\ superseded[i]
        /\ pc[i] = "done"
        /\ inflightAuth # 0
        /\ inflightAuth # i
        /\ pc[inflightAuth] \notin {"idle", "done"}

\* ------------------------------------------------------ the returned status
\* C26: whenever a call returns a status to its caller, that status is the
\* current one at the moment of the return, a failure status included.
C26_ReturnedStatusIsCurrent ==
    [][ \A i \in Calls :
          (outcome[i] = "none" /\ outcome'[i] = "status") => status' = result'[i] ]_vars

\* ----------------------------------------------------- the dependents' view
\* The value a subscriber of AuthProvider.changes holds: the last status
\* fired, or the status at subscription when none was fired.
LastDelivered ==
    IF fired = <<>> THEN PlaceholderStatus(lastEndpoint) ELSE fired[Len(fired)]

\* C27: whenever no auth() call is running, the status last delivered to the
\* subscribers of the change stream is the one getAuthStatus() returns.
C27_NoStaleViewWhenQuiescent ==
    (\A i \in Calls : pc[i] \in {"idle", "done"}) => LastDelivered = status

\* -------------------------------------------------------- status consistency
\* A status is internally consistent.
Consistent(st) ==
    /\ st.isLoggedIn =>
          /\ st.user # Null
          /\ st.site # Null
          /\ st.site.siteHasCodyEnabled
          /\ ~st.showInvalidAccessTokenError
          /\ st.ephemeralConnectivityStatus = "online"
    /\ (st.showInvalidAccessTokenError
            \/ st.ephemeralConnectivityStatus \in {"offline", "error"}) =>
          /\ ~st.isLoggedIn
          /\ st.user = Null
          /\ st.site = Null

\* C28: every status that can become the current one, the constructor's
\* placeholder and every status makeAuthStatus returns, is internally
\* consistent: logged in implies a user, a site with Cody enabled, no
\* invalid-token flag and connectivity online; the invalid-token flag or an
\* offline or error connectivity implies not logged in, no user and no site.
C28_StatusConsistent ==
    /\ Consistent(status)
    /\ mkStatus # Null => Consistent(mkStatus)

\* makeAuthStatus has returned a logged-in status, which has a user and a
\* site with Cody enabled.
C28_Witness ==
    /\ mkStatus # Null
    /\ mkStatus.isLoggedIn
    /\ mkStatus.user # Null
    /\ mkStatus.site.siteHasCodyEnabled
    /\ mkStatus.ephemeralConnectivityStatus = "online"

\* ------------------------------------------------- startup authentication
\* C30: the startup authentication (isExtensionStartup) is started at most
\* once, only by the callback of the first configuration emission once the
\* stored token has been read, with the last-used endpoint and its stored
\* token; the callback starts no call when the status is logged in at that
\* moment; and however the startup call ends, the callback completes
\* instead of rejecting.
C30_StartupAuthOnceOnFirstEmission ==
    [][ /\ \A i \in Calls :
              (args'[i].isExtensionStartup /\ ~args[i].isExtensionStartup) =>
                  /\ startupPc = "getToken"
                  /\ startupPc' = "auth"
                  /\ ~status.isLoggedIn
                  /\ args'[i].endpoint = lastEndpoint
                  /\ args'[i].token =
                        (IF secrets[lastEndpoint] = "" THEN NullStr
                         ELSE secrets[lastEndpoint])
        /\ Cardinality({i \in Calls : args'[i].isExtensionStartup}) <= 1
        /\ (startupPc # "getToken" /\ startupPc' = "getToken") => firstAuth
        /\ ~firstAuth => ~firstAuth'
        /\ (startupPc = "getToken" /\ startupPc' # "getToken" /\ status.isLoggedIn)
              => nStarted' = nStarted
        /\ (startupPc = "auth" /\ startupPc' # "auth") => startupPc' = "done" ]_vars

\* The startup call was superseded and threw the abort error, and the
\* callback has completed.
C30_Witness ==
    /\ startupPc = "done"
    /\ \E i \in Calls : args[i].isExtensionStartup /\ outcome[i] = "abort"

C29_CallbackAuthenticatesRedirectedEndpoint ==
    [][ ( /\ callbackPc = "idle" /\ callbackPc' # "idle"
          /\ ~TokenIsEmpty(callbackCode') )
        => /\ callbackPc' = "auth"
           /\ ServerEndpoint(args'[callbackCall'].endpoint) = redirectEndpoint
           /\ args'[callbackCall'].token = callbackCode' ]_vars

C24_EveryCallTerminates ==
    /\ \A i \in Calls :
          (pc[i] # "idle") ~> (pc[i] = "done" /\ outcome[i] \in {"status", "abort"})
    /\ []((\A i \in Calls : pc[i] \in {"idle", "done"}) => inflightAuth = 0)

\* Both calls have ended, one by throwing the abort error and one by
\* returning a status, and the slot is null.
C24_Witness ==
    /\ \A i \in Calls : pc[i] = "done"
    /\ \E i \in Calls : outcome[i] = "abort"
    /\ \E i \in Calls : outcome[i] = "status"
    /\ inflightAuth = 0

\* ------------------------------------------------------ what auth() leaves
\* C31: no step of an auth() call whose token is null or empty changes the
\* secret token store, and no step of a call whose endpoint normalizes to ''
\* changes the saved endpoint, the stored endpoint history or the token store.
C31_EmptyTokenOrEndpointLeavesStores ==
    [][ \A i \in Calls :
          pc'[i] # pc[i] =>
              /\ TokenIsEmpty(args'[i].token) => secrets' = secrets
              /\ ServerEndpoint(args'[i].endpoint) = "" =>
                    /\ lastUsedEndpoint' = lastUsedEndpoint
                    /\ storedHistory' = storedHistory
                    /\ secrets' = secrets ]_vars

\* A call without a token for a valid endpoint has returned a status after
\* saving the endpoint, and the token stored earlier for it is still there.
C31_Witness ==
    \E i \in Calls :
        /\ args[i].token = NullStr
        /\ ServerEndpoint(args[i].endpoint) = "https://example.com/"
        /\ ~args[i].isExtensionStartup
        /\ outcome[i] = "status"
        /\ committed[i]
        /\ lastUsedEndpoint = "https://example.com/"
        /\ secrets["https://example.com/"] = "t1"

\* ================================================ LocalEmbeddingsController
\* C32: whenever the service has started and neither a setAccessToken call
\* nor the service start-up is in progress, the token last sent with
\* 'embeddings/set-token' is the controller's access token, if it has one.
C32_EngineTokenInSync ==
    ( /\ serviceStarted
      /\ service = "ready"
      /\ setTokenRequests = 0
      /\ accessToken # NullStr )
    => engineToken = accessToken


\* C33: once the engine has ended indexing (a done or error notification has
\* arrived) and no 'embeddings/index' response is outstanding, no directory
\* is recorded as being indexed and the status is not 'indexing'.
C33_NotIndexingAfterDoneOrError ==
    (engineIndexing = NullStr /\ indexRequests = {}) =>
        /\ dirBeingIndexed = NullStr
        /\ EmbeddingsStatus # "indexing"


\* C34: a health report that onHealthReport receives for a directory other
\* than lastRepo.dir changes neither lastHealth nor the issue flag and sends
\* no 'embeddings/index' request.
C34_StaleHealthReportIgnored ==
    [][ ( /\ lastCall'.op = "onHealthReport"
          /\ lastCall'.dir \in healthRequests
          /\ healthRequests' = healthRequests \ {lastCall'.dir}
          /\ (lastRepo = Null \/ lastRepo.dir # lastCall'.dir) )
        => ( /\ lastHealth' = lastHealth
             /\ hasIssue' = hasIssue
             /\ indexSent' = indexSent
             /\ indexRequests' = indexRequests ) ]_vars

\* A found index was reported for a directory that is no longer lastRepo.dir.
C34_Witness ==
    /\ lastCall.op = "onHealthReport"
    /\ lastCall.results
    /\ lastRepo # Null
    /\ lastRepo.dir # lastCall.dir


\* C35: while the endpoint is not dotcom the status is empty, and no step
\* taken then (index, indexRetry, getContext or a resumed load or health
\* check) sends 'embeddings/index' or 'embeddings/query'; a getContext call
\* made then returns no results.
C35_NothingOfferedOnEnterprise ==
    [][ ~endpointIsDotcom =>
          /\ EmbeddingsStatus = "empty"
          /\ indexSent' = indexSent
          /\ indexRequests' \subseteq indexRequests
          /\ querySent' = querySent
          /\ (embOps' # embOps /\ lastCall'.op \in {"index", "indexRetry", "getContext"})
                => (~lastCall'.sent /\ ~lastCall'.results) ]_vars

\* indexRetry was called on an enterprise endpoint with a repository loaded.
C35_Witness ==
    /\ ~endpointIsDotcom
    /\ lastCall.op = "indexRetry"
    /\ lastRepo # Null
    /\ lastRepo.repoName # ""
    /\ indexSent = 0


\* C36: at most one enrollment listener is live.
C36_AtMostOneEnrollmentListener == Cardinality(liveEnrollment) <= 1

\* C37: once no updateEnablement call is pending, the decorator is active,
\* with its listeners registered once, exactly if the most recent auth status
\* is logged in and the feature is enabled.
C37_ActiveIffLoggedInAndEnabled ==
    pendingUpdates = {} =>
        /\ isActive <=> (ghostAuth /\ hintsEnabled)
        /\ disposables = (IF isActive THEN 1 ELSE 0)


\* C38: a setSingleton call on a container that is not yet set makes the
\* container equal to the instance and does not throw; a call on a container
\* that is set throws and leaves the container as it was; no call changes
\* another container.
C38_SetExactlyOnce ==
    [][ \A c \in DOMAIN containers :
          lastSet'.container = c =>
            /\ IF containers[c] = SingletonNotYetSet
               THEN containers'[c] = lastSet'.instance /\ ~lastSet'.threw
               ELSE containers'[c] = containers[c] /\ lastSet'.threw
            /\ containers'[c] # SingletonNotYetSet
            /\ \A d \in DOMAIN containers \ {c} : containers'[d] = containers[d] ]_vars

\* A second setSingleton, with another instance, threw and left the first.
C38_Witness ==
    /\ lastSet.threw
    /\ lastSet.container = 1
    /\ containers[1] \in Instances
    /\ containers[1] # lastSet.instance


\* C39: for a provider with a delimiter the result is the parsed provider and
\* model exactly when the model id has the delimiter with a non-empty part
\* before its first occurrence and after it, and an Error otherwise (no model
\* id, or none with the delimiter); a provider without a delimiter comes back
\* unchanged.
C39_ParsesOnlyDelimitedModelIds ==
    parseResult # Null =>
        LET id == parseArgs.modelId
            d == IF parseArgs.provider = "sourcegraph" THEN "/"
                 ELSE IF parseArgs.provider = "aws-bedrock" THEN "." ELSE NullStr
            splits == {i \in 2..(Len(id) - 1) :
                          id[i] = d /\ \A j \in 1..(i - 1) : id[j] # d}
        IN  IF d = NullStr
            THEN /\ parseResult.kind = "unchanged"
                 /\ parseResult.provider = parseArgs.provider
                 /\ parseResult.hasModelId = parseArgs.hasModelId
                 /\ parseResult.modelId = id
            ELSE IF parseArgs.hasModelId /\ splits # {}
            THEN /\ parseResult.kind = "parsed"
                 /\ \E i \in splits :
                        /\ parseResult.provider = SubSeq(id, 1, i - 1)
                        /\ parseResult.modelId = SubSeq(id, i + 1, Len(id))
            ELSE parseResult.kind = "error"

\* ------------------------------------------------------------ type invariant
TypeOK ==
    /\ IsStatus(status)
    /\ inflightAuth \in 0..MaxCalls
    /\ nStarted \in 0..MaxCalls
    /\ pc \in [Calls -> {"idle", "makeAuthStatus", "saveEndpoint", "storeToken",
                         "setContext", "clientConfig", "syncModels",
                         "setHasAuthenticatedBefore", "done"}]
    /\ outcome \in [Calls -> {"none", "status", "abort", "error"}]
    /\ \A i \in Calls : result[i] = Null \/ IsStatus(result[i])
    /\ \A i \in Calls : authStatus[i] = Null \/ IsStatus(authStatus[i])
    /\ signoutPc \in {"idle", "deleteToken", "deleteEndpoint", "auth", "setContext",
                      "done", "failed"}
    /\ signoutCall \in 0..MaxCalls
    /\ contextFlag \in BOOLEAN
    /\ startupPc \in {"idle", "getToken", "auth", "done", "failed"}
    /\ reloadPc \in {"idle", "setContext", "auth", "done", "failed"}
    /\ reloadCall \in 0..MaxCalls
    /\ redirectEndpoint \in StoredEndpoints \cup {NullStr}
    /\ callbackCode \in CallbackCodes
    /\ callbackPc \in {"idle", "skipped", "auth", "done", "failed"}
    /\ callbackCall \in 0..MaxCalls
    /\ firstAuth \in BOOLEAN
    /\ Len(fired) <= MaxCalls

====
